---------------------------- MODULE Spec2Model ----------------------------
(***************************************************************************)
(* A model of render_stl_png.py: the STL loader (read_stl, read_stl_ascii, *)
(* read_stl_binary) on real byte strings, and render's drawing pipeline    *)
(* (camera placement, ground grid and axis lines, the face loop with its   *)
(* depth buffer, the output steps).                                        *)
(*                                                                         *)
(* Arithmetic is exact: the program's floats are modelled by rationals     *)
(* (pairs <<numerator, denominator>>) or by integers in fixed units.  A    *)
(* drawing in which the rounding of a float decides a pixel (a truncation, *)
(* a rounding or a comparison on a tie) is not evaluated: its image is     *)
(* left unknown (<<>>) and its outcome open.                               *)
(***************************************************************************)
EXTENDS Integers, Sequences, FiniteSets, TLC

(***************************************************************************)
(* Small arithmetic helpers.                                               *)
(***************************************************************************)
Abs(x) == IF x < 0 THEN -x ELSE x

Min2(a, b) == IF a <= b THEN a ELSE b

Max2(a, b) == IF a >= b THEN a ELSE b

SetMin(S) == CHOOSE x \in S : \A y \in S : x <= y

SetMax(S) == CHOOSE x \in S : \A y \in S : x >= y

RECURSIVE Gcd(_, _)
Gcd(a, b) == IF b = 0 THEN Abs(a) ELSE Gcd(Abs(b), Abs(a) % Abs(b))

RECURSIVE Pow(_, _)
Pow(b, e) == IF e = 0 THEN 1 ELSE b * Pow(b, e - 1)

\* Python's int(): truncation toward zero of the rational n/d, d > 0.
Trunc(n, d) == IF n >= 0 THEN n \div d ELSE -((-n) \div d)

\* A rational in lowest terms with a positive denominator.
Frac(n, d) ==
    LET s == IF d < 0 THEN -1 ELSE 1
        g == Gcd(n, d)
    IN  <<(s * n) \div g, (s * d) \div g>>

(***************************************************************************)
(* render computes in binary floating point and this model in exact        *)
(* rationals.  The two agree on every truncation, rounding and comparison  *)
(* whose exact operands are held exactly by a float (quotients of small    *)
(* integers by a power of two) or are not at a tie (an integer about to be *)
(* truncated, a half about to be rounded, two equal depths).  The          *)
(* *_decided predicates below say so, and render is evaluated only on      *)
(* scenes where they hold; on the others its outcome is left open.         *)
(***************************************************************************)
RECURSIVE IsPow2(_)
IsPow2(n) == n = 1 \/ (n > 1 /\ n % 2 = 0 /\ IsPow2(n \div 2))

\* The float quotient n / d of two small integers is exact.
ExactQuotient(n, d) == IsPow2(Abs(d) \div Gcd(n, d))

(***************************************************************************)
(* Byte strings.  A file and a text are sequences of codes 0..255.         *)
(***************************************************************************)
B_solid == <<115, 111, 108, 105, 100>>

B_facet == <<102, 97, 99, 101, 116>>

B_vertex_sp == <<118, 101, 114, 116, 101, 120, 32>>

StartsWith(s, p) == Len(s) >= Len(p) /\ SubSeq(s, 1, Len(p)) = p

\* b"..." in data: p occurs somewhere in s.
Contains(s, p) ==
    \E i \in 1..(Len(s) - Len(p) + 1) : SubSeq(s, i, i + Len(p) - 1) = p

\* data[:k]
Prefix(s, k) == SubSeq(s, 1, Min2(k, Len(s)))

\* bytes.lstrip(): ASCII whitespace is space, \t, \n, \r, \x0b, \x0c.
SpaceBytes == {9, 10, 11, 12, 13, 32}

\* str.strip() and str.split(): the ASCII characters str.isspace() accepts.
SpaceChars == {9, 10, 11, 12, 13, 28, 29, 30, 31, 32}

\* str.splitlines(): the ASCII line boundaries.
LineBreaks == {10, 11, 12, 13, 28, 29, 30}

\* Index of the first (last) element of s outside W; Len(s)+1 (0) if none.
FirstNotIn(s, W) ==
    IF \A i \in 1..Len(s) : s[i] \in W THEN Len(s) + 1
    ELSE SetMin({i \in 1..Len(s) : s[i] \notin W})

LastNotIn(s, W) ==
    IF \A i \in 1..Len(s) : s[i] \in W THEN 0
    ELSE SetMax({i \in 1..Len(s) : s[i] \notin W})

lstrip(s) == SubSeq(s, FirstNotIn(s, SpaceBytes), Len(s))

strip(s) == SubSeq(s, FirstNotIn(s, SpaceChars), LastNotIn(s, SpaceChars))

\* data.decode("utf-8", errors="ignore").  A byte below 128 is its own
\* character; a byte from 128 on that is part of no valid multi-byte
\* sequence is dropped.  The files of this model hold no lead byte of a
\* valid sequence (0xC2..0xF4), so every byte from 128 on is dropped.
decode(data) == SelectSeq(data, LAMBDA b : b < 128)

\* text.splitlines(): the lines without their boundaries; "\r\n" is one
\* boundary; a boundary at the very end opens no further line.
RECURSIVE splitlines(_)
splitlines(s) ==
    IF Len(s) = 0 THEN <<>>
    ELSE LET brk == {i \in 1..Len(s) : s[i] \in LineBreaks}
         IN  IF brk = {} THEN <<s>>
             ELSE LET i == SetMin(brk)
                      j == IF s[i] = 13 /\ i < Len(s) /\ s[i + 1] = 10
                           THEN i + 1 ELSE i
                  IN  <<SubSeq(s, 1, i - 1)>>
                          \o splitlines(SubSeq(s, j + 1, Len(s)))

\* line.split(): the maximal runs of non-whitespace characters.
RECURSIVE split(_)
split(s) ==
    LET t == SubSeq(s, FirstNotIn(s, SpaceChars), Len(s))
    IN  IF Len(t) = 0 THEN <<>>
        ELSE LET sp  == {i \in 1..Len(t) : t[i] \in SpaceChars}
                 end == IF sp = {} THEN Len(t) ELSE SetMin(sp) - 1
             IN  <<SubSeq(t, 1, end)>> \o split(SubSeq(t, end + 1, Len(t)))

(***************************************************************************)
(* Numbers.  A coordinate read from a file is a rational <<n, d>> in       *)
(* lowest terms (d >= 1) when the model can hold its exact value, and the  *)
(* four bytes <<b0, b1, b2, b3>> of the float32 otherwise (values beyond   *)
(* the model's integers, denormals, infinities, NaNs).                     *)
(***************************************************************************)
DigitChars == 48..57

IsDigits(s) == Len(s) > 0 /\ \A i \in 1..Len(s) : s[i] \in DigitChars

RECURSIVE DigitsValue(_)
DigitsValue(s) ==
    IF Len(s) = 0 THEN 0
    ELSE 10 * DigitsValue(SubSeq(s, 1, Len(s) - 1)) + (s[Len(s)] - 48)

\* float(tok) for a token spelled with a sign, digits, one '.', and an
\* exponent: <<n, d>>, or <<>> for ValueError.  A numeral whose value the
\* model's integers cannot hold exactly (more than 9 digits, a power of ten
\* beyond 10^9) is <<sign, 0>>: a float the model does not evaluate.
\* Python also accepts the spellings of infinity and nan and '_' between
\* digits; no file of the model holds one, and the model takes them for
\* errors.
float(tok) ==
    LET signed == Len(tok) > 0 /\ tok[1] \in {43, 45}
        sgn    == IF Len(tok) > 0 /\ tok[1] = 45 THEN -1 ELSE 1
        body   == IF signed THEN SubSeq(tok, 2, Len(tok)) ELSE tok
        es     == {i \in 1..Len(body) : body[i] \in {69, 101}}
        mant   == IF es = {} THEN body ELSE SubSeq(body, 1, SetMin(es) - 1)
        expo   == IF es = {} THEN <<>>
                  ELSE SubSeq(body, SetMin(es) + 1, Len(body))
        esign  == Len(expo) > 0 /\ expo[1] \in {43, 45}
        eneg   == Len(expo) > 0 /\ expo[1] = 45
        edig   == IF esign THEN SubSeq(expo, 2, Len(expo)) ELSE expo
        dots   == {i \in 1..Len(mant) : mant[i] = 46}
        ip     == IF dots = {} THEN mant ELSE SubSeq(mant, 1, SetMin(dots) - 1)
        fp     == IF dots = {} THEN <<>>
                  ELSE SubSeq(mant, SetMin(dots) + 1, Len(mant))
        digs   == ip \o fp
        wellformed ==
            /\ Cardinality(dots) <= 1
            /\ IsDigits(digs)
            /\ es # {} => IsDigits(edig)
        e10    == (IF es = {} THEN 0
                   ELSE (IF eneg THEN -1 ELSE 1) * DigitsValue(edig)) - Len(fp)
    IN  IF ~wellformed THEN <<>>
        ELSE IF Len(digs) > 9 \/ Len(edig) > 2 THEN <<sgn, 0>>
        ELSE IF DigitsValue(digs) = 0 THEN <<0, 1>>
        ELSE IF e10 > 9 - Len(digs) \/ e10 < -9 THEN <<sgn, 0>>
        ELSE IF e10 >= 0
             THEN <<sgn * DigitsValue(digs) * Pow(10, e10), 1>>
             ELSE Frac(sgn * DigitsValue(digs), Pow(10, -e10))

\* The number of trailing zero bits of m > 0.
RECURSIVE TrailingZeros(_)
TrailingZeros(m) == IF m % 2 = 1 THEN 0 ELSE 1 + TrailingZeros(m \div 2)

\* One little-endian IEEE-754 float32 at data[offset:offset+4], as
\* struct.unpack_from("<f") decodes it: sign bit, 8 exponent bits, 23
\* fraction bits; a normal number is (2^23 + fraction) * 2^(exponent - 150).
F32At(data, offset) ==
    LET b0    == data[offset + 1]
        b1    == data[offset + 2]
        b2    == data[offset + 3]
        b3    == data[offset + 4]
        sgn   == IF b3 >= 128 THEN -1 ELSE 1
        e     == (b3 % 128) * 2 + (b2 \div 128)
        m     == (b2 % 128) * 65536 + b1 * 256 + b0
        sig   == 8388608 + m
        tz    == TrailingZeros(sig)
        up    == e - 150
    IN  IF e = 0 /\ m = 0 THEN <<0, 1>>
        ELSE IF e = 0 \/ e = 255 THEN <<b0, b1, b2, b3>>
        ELSE IF up >= 0
             THEN IF up <= 6 THEN <<sgn * sig * Pow(2, up), 1>>
                  ELSE <<b0, b1, b2, b3>>
             ELSE IF -up - tz <= 0
                  THEN <<sgn * (sig \div Pow(2, -up)), 1>>
                  ELSE IF -up - tz <= 30
                       THEN <<sgn * (sig \div Pow(2, tz)), Pow(2, -up - tz)>>
                       ELSE <<b0, b1, b2, b3>>

\* struct.unpack_from("<I", data, offset) as its two 16-bit halves <<hi, lo>>
\* (the value is hi * 65536 + lo, which the model's integers may not hold).
U32At(data, offset) ==
    <<data[offset + 3] + 256 * data[offset + 4],
      data[offset + 1] + 256 * data[offset + 2]>>

(***************************************************************************)
(* The loader.  A result is [ok, tris, err]: the triangle list returned,   *)
(* or the exception raised.  A triangle is <<a, b, c>>, a vertex <<x,y,z>>.*)
(***************************************************************************)
Returned(tris) == [ok |-> TRUE, tris |-> tris, err |-> ""]

Raised(err) == [ok |-> FALSE, tris |-> <<>>, err |-> err]

\* read_stl_ascii's loop from line i on.
RECURSIVE ascii_lines(_, _, _, _)
ascii_lines(lines, i, verts, tris) ==
    IF i > Len(lines)
    THEN IF tris = <<>> THEN Raised("No triangles parsed from ASCII STL")
         ELSE Returned(tris)
    ELSE LET line == strip(lines[i])
         IN  IF ~StartsWith(line, B_vertex_sp)
             THEN ascii_lines(lines, i + 1, verts, tris)
             ELSE LET toks == split(line)
                  IN  IF Len(toks) # 4 THEN Raised("ValueError: unpack")
                      ELSE LET v == <<float(toks[2]), float(toks[3]),
                                      float(toks[4])>>
                               vs == Append(verts, v)
                           IN  IF \E k \in 1..3 : v[k] = <<>>
                               THEN Raised("ValueError: float")
                               ELSE IF Len(vs) = 3
                                    THEN ascii_lines(lines, i + 1, <<>>,
                                             Append(tris, vs))
                                    ELSE ascii_lines(lines, i + 1, vs, tris)

read_stl_ascii(text) == ascii_lines(splitlines(text), 1, <<>>, <<>>)

offset0 == 84

\* A record stride that leaves out the two attribute bytes.
rec_size_no_attribute == 50 - 2

rec_size == 50

\* One 50-byte record at offset: the normal (12 bytes) is skipped, then
\* nine floats, then the attribute (2 bytes) is skipped.
RecordAt(data, offset) ==
    LET fl(k) == F32At(data, offset + 12 + 4 * k)
    IN  <<<<fl(0), fl(1), fl(2)>>, <<fl(3), fl(4), fl(5)>>,
          <<fl(6), fl(7), fl(8)>>>>

\* read_stl_binary's loop: iteration i of range(n) at offset.  last is the
\* end of the highest byte range an unpack_from has read so far.
RECURSIVE binary_records(_, _, _, _, _, _)
binary_records(data, n, i, offset, tris, last) ==
    IF i >= n \/ offset + rec_size > Len(data)
    THEN [tris |-> tris, last |-> last]
    ELSE binary_records(data, n, i + 1, offset + rec_size,
                        Append(tris, RecordAt(data, offset)),
                        Max2(last, offset + 12 + 36))

\* read_stl_binary with the byte ranges it read: [ok, tris, err, last].
\* The declared count is hi * 65536 + lo; a file of the model is shorter
\* than 84 + 50 * 65536 bytes, so "expected > len(data)" holds whenever
\* hi > 0, and is 84 + lo * 50 > len(data) otherwise.
read_stl_binary_io(data) ==
    IF Len(data) < 84
    THEN [ok |-> FALSE, tris |-> <<>>, err |-> "STL file too small", last |-> 0]
    ELSE LET cnt      == U32At(data, 80)
             expected == offset0 + cnt[2] * rec_size
             n        == IF cnt[1] > 0 \/ expected > Len(data)
                         THEN Max2(0, (Len(data) - offset0) \div rec_size)
                         ELSE cnt[2]
             r        == binary_records(data, n, 0, offset0, <<>>, 84)
         IN  IF r.tris = <<>>
             THEN [ok |-> FALSE, tris |-> <<>>,
                   err |-> "No triangles parsed from binary STL",
                   last |-> r.last]
             ELSE [ok |-> TRUE, tris |-> r.tris, err |-> "", last |-> r.last]

\* A read_stl_binary that does not clamp: a declared count the bytes do not
\* hold is an error.
read_stl_binary_unclamped(data) ==
    LET r   == read_stl_binary_io(data)
        cnt == U32At(data, 80)
    IN  IF Len(data) >= 84
           /\ (cnt[1] > 0 \/ offset0 + cnt[2] * rec_size > Len(data))
        THEN Raised("STL file truncated")
        ELSE [ok |-> r.ok, tris |-> r.tris, err |-> r.err]

read_stl_binary(data) ==
    LET r == read_stl_binary_io(data)
    IN  [ok |-> r.ok, tris |-> r.tris, err |-> r.err]

\* The test of read_stl's if: ASCII is attempted.
looks_ascii(data) ==
    /\ StartsWith(lstrip(Prefix(data, 80)), B_solid)
    /\ Contains(Prefix(data, 4096), B_facet)

\* read_stl: try ASCII when the file looks like it, and take the binary
\* parse when it does not or when the ASCII parse raised anything.
read_stl(data) ==
    IF looks_ascii(data) /\ read_stl_ascii(decode(data)).ok
    THEN read_stl_ascii(decode(data))
    ELSE read_stl_binary(data)

(***************************************************************************)
(* Geometry.  Once loaded, a length is an integer number of units of       *)
(* 1/Unit, so that the centre, the radius, the ground plane (0.02 radius   *)
(* below the mesh) and the grid steps of the meshes of this model are all  *)
(* whole numbers of units.  A vector is <<x, y, z>>.                       *)
(***************************************************************************)
Unit == 4 * 100

\* The largest coordinate magnitude (in the file's own unit) render is
\* evaluated for.
CoordLimit == 4

\* A coordinate the drawing pipeline is evaluated for: a whole or half
\* number of small magnitude.
Evaluable(c) ==
    /\ Len(c) = 2
    /\ c[2] \in {1, 2}
    /\ Abs(c[1]) <= CoordLimit * c[2]

EvaluableMesh(tris) ==
    \A t \in 1..Len(tris) : \A v \in 1..3 : \A k \in 1..3 :
        Evaluable(tris[t][v][k])

InUnits(c) == c[1] * (Unit \div c[2])

PointInUnits(v) == <<InUnits(v[1]), InUnits(v[2]), InUnits(v[3])>>

v_add(a, b) == <<a[1] + b[1], a[2] + b[2], a[3] + b[3]>>

v_sub(a, b) == <<a[1] - b[1], a[2] - b[2], a[3] - b[3]>>

v_dot(a, b) == a[1] * b[1] + a[2] * b[2] + a[3] * b[3]

v_cross(a, b) ==
    <<a[2] * b[3] - a[3] * b[2],
      a[3] * b[1] - a[1] * b[3],
      a[1] * b[2] - a[2] * b[1]>>

\* The direction of v_norm(a): a scaled down to its primitive integer
\* vector, or the zero vector (v_norm returns zero for a length <= 1e-12,
\* which on this grid is length 0).
v_dir(a) ==
    LET g == Gcd(Gcd(a[1], a[2]), a[3])
    IN  IF g = 0 THEN <<0, 0, 0>>
        ELSE <<a[1] \div g, a[2] \div g, a[3] \div g>>

\* clamp01 on hundredths.
clamp01(x) == IF x < 0 THEN 0 ELSE IF x > 100 THEN 100 ELSE x

\* blend_rgb with the opacity a in hundredths: each channel is
\* int(base * (1 - a) + over * a).
blend_rgb(base, over, a) ==
    LET al == clamp01(a)
        ch(k) == (base[k] * (100 - al) + over[k] * al) \div 100
    IN  <<ch(1), ch(2), ch(3)>>

\* The truncation of blend_rgb is decided: no channel is a whole number
\* before int(), unless the opacity is 1.0.
blend_decided(base, over, a) ==
    \/ clamp01(a) = 100
    \/ \A k \in 1..3 :
           (base[k] * (100 - clamp01(a)) + over[k] * clamp01(a)) % 100 # 0

\* bounds(tris), on triangles in units: <<vmin, vmax>>.
bounds(tris) ==
    LET cs(k) == {tris[t][v][k] : t \in 1..Len(tris), v \in 1..3}
    IN  <<<<SetMin(cs(1)), SetMin(cs(2)), SetMin(cs(3))>>,
          <<SetMax(cs(1)), SetMax(cs(2)), SetMax(cs(3))>>>>

\* tri_normal(t) * w of build_vertex_normals, doubled: the unit normal
\* times the area is half the cross product; a triangle of area 0 has the
\* zero normal (times the weight 1.0).
tri_weighted_normal(t) == v_cross(v_sub(t[2], t[1]), v_sub(t[3], t[1]))

\* A vid that appends every corner it is given, seen before or not.
vid_always_appends(m, v) ==
    [m EXCEPT !.verts = Append(@, v), !.acc = Append(@, <<0, 0, 0>>)]

\* build_vertex_normals keeps [verts, faces, acc]: the vertices
\* deduplicated by exact equality in order of first appearance, one face of
\* three indices (from 1) per triangle, and the accumulated normal of each
\* vertex.  vid(v) appends an unseen vertex with a zero normal; its result
\* is index(v).
vid(m, v) ==
    IF \E i \in 1..Len(m.verts) : m.verts[i] = v THEN m
    ELSE [m EXCEPT !.verts = Append(@, v), !.acc = Append(@, <<0, 0, 0>>)]

\* An index that is always the one of the vertex appended last.
index_of_last(m, v) == Len(m.verts)

\* vmap[key]: the index of v in verts, once vid has seen it.
index(m, v) == CHOOSE i \in 1..Len(m.verts) : m.verts[i] = v

\* normals_acc[i] = v_add(normals_acc[i], n)
add_normal(m, i, n) == [m EXCEPT !.acc[i] = v_add(@, n)]

\* faces.append((ia, ib, ic)) and the three accumulations, once the three
\* vertices are in verts.
add_face(m, t, n) ==
    [add_normal(add_normal(add_normal(m, index(m, t[1]), n),
                           index(m, t[2]), n), index(m, t[3]), n)
        EXCEPT !.faces = Append(@, <<index(m, t[1]), index(m, t[2]),
                                     index(m, t[3])>>)]

\* One turn of the loop over tris: ia, ib, ic = vid(t.a), vid(t.b),
\* vid(t.c), the face and the area-weighted normal added at the three.
add_triangle(m, t) ==
    add_face(vid(vid(vid(m, t[1]), t[2]), t[3]), t, tri_weighted_normal(t))

\* verts, faces and normals_acc before the loop.
no_vertices == [verts |-> <<>>, faces |-> <<>>, acc |-> <<>>]

\* The state after the first k triangles.
RECURSIVE build_vertex_normals_upto(_, _)
build_vertex_normals_upto(tris, k) ==
    IF k = 0 THEN no_vertices
    ELSE add_triangle(build_vertex_normals_upto(tris, k - 1), tris[k])

\* norms = [v_norm(n) for n in acc], as directions.
normalized(m) ==
    [verts |-> m.verts, faces |-> m.faces,
     norms |-> [i \in 1..Len(m.acc) |-> v_dir(m.acc[i])]]

build_vertex_normals(tris) ==
    normalized(build_vertex_normals_upto(tris, Len(tris)))

\* The camera distance d = (radius * f) / max(1e-6, 1.0 - margin), margin
\* in hundredths.  The quotient is exact for the margins of this model.
camera_distance(radius, f, margin) ==
    IF margin >= 100 THEN radius * f * 1000000
    ELSE (radius * f * 100) \div (100 - margin)

\* z > -1e-6 for a z of v units of 1/unit.
above_near_limit(v, unit) ==
    \/ v >= 0
    \/ -v < unit \div 1000000
    \/ -v = unit \div 1000000 /\ unit % 1000000 # 0

\* A project_persp that replaces only a z that is not negative.
project_persp_clamp_at_zero(v, f, unit) ==
    IF v[3] >= 0
    THEN <<Frac(v[1] * f * (1000000 \div Gcd(1000000, unit)),
                unit \div Gcd(1000000, unit)),
           Frac(v[2] * f * (1000000 \div Gcd(1000000, unit)),
                unit \div Gcd(1000000, unit)),
           Frac(-unit, 1000000)>>
    ELSE <<Frac(v[1] * f, -v[3]), Frac(v[2] * f, -v[3]), <<v[3], 1>>>>

\* project_persp(v, f) for a v in units of 1/unit: <<x, y, z>> with x and
\* y rationals and z in the same units as a rational.  A z above -1e-6
\* becomes -1e-6, which is -unit / 1000000 units.
project_persp_at(v, f, unit) ==
    IF above_near_limit(v[3], unit)
    THEN <<Frac(v[1] * f * (1000000 \div Gcd(1000000, unit)),
                unit \div Gcd(1000000, unit)),
           Frac(v[2] * f * (1000000 \div Gcd(1000000, unit)),
                unit \div Gcd(1000000, unit)),
           Frac(-unit, 1000000)>>
    ELSE <<Frac(v[1] * f, -v[3]), Frac(v[2] * f, -v[3]), <<v[3], 1>>>>

\* project_persp on the grid of the renderer's model:
\* project_persp_at(v, f, Unit) written out.  A z above -1e-6 is a z >= 0
\* there, and -1e-6 is -1 / (1000000 / Unit) units.
project_persp(v, f) ==
    IF v[3] >= 0
    THEN <<<<v[1] * f * (1000000 \div Unit), 1>>,
           <<v[2] * f * (1000000 \div Unit), 1>>,
           <<-1, 1000000 \div Unit>>>>
    ELSE <<Frac(v[1] * f, -v[3]), Frac(v[2] * f, -v[3]), <<v[3], 1>>>>

\* to_px(x, y): px = int((x * 0.5 + 0.5) * (size - 1)), and py the same of
\* -y, for rationals x and y.
to_px(x, y, size) ==
    <<Trunc((x[1] + x[2]) * (size - 1), 2 * x[2]),
      Trunc((y[2] - y[1]) * (size - 1), 2 * y[2])>>

\* The truncations of to_px are decided for coordinates computed from
\* floats that are exact: the coordinate is held exactly, or the value
\* truncated is no whole number.
to_px_decided(x, y, size) ==
    /\ IsPow2(x[2]) \/ ((x[1] + x[2]) * (size - 1)) % (2 * x[2]) # 0
    /\ IsPow2(y[2]) \/ ((y[2] - y[1]) * (size - 1)) % (2 * y[2]) # 0

\* The same for a coordinate computed from rounded floats (0.02 * radius,
\* radius * 1.35): the value truncated is no whole number.
px_clear(x, size) == ((x[1] + x[2]) * (size - 1)) % (2 * x[2]) # 0

py_clear(y, size) == ((y[2] - y[1]) * (size - 1)) % (2 * y[2]) # 0

\* cam_to_screen(pc): the pixel of the projection and the camera depth.
cam_to_screen(pc, f, size) ==
    LET pr == project_persp(pc, f)
        px == to_px(pr[1], pr[2], size)
    IN  <<px[1], px[2], pr[3]>>

(***************************************************************************)
(* Depths.  A depth is a rational <<n, d>>, d > 0; +infinity is <<1, 0>>.  *)
(***************************************************************************)
Inf == <<1, 0>>

\* a < b on depths.
DepthLess(a, b) ==
    IF a[2] = 0 THEN FALSE
    ELSE IF b[2] = 0 THEN TRUE
    ELSE a[1] * b[2] < b[1] * a[2]

\* Two finite depths are equal.
DepthTie(a, b) == a[2] # 0 /\ b[2] # 0 /\ a[1] * b[2] = b[1] * a[2]

\* Python's round() of the rational n/d, d > 0: to nearest, ties to even.
round(n, d) ==
    LET q == n \div d
        r == n - q * d
    IN  IF 2 * r < d THEN q
        ELSE IF 2 * r > d THEN q + 1
        ELSE IF q % 2 = 0 THEN q ELSE q + 1

(***************************************************************************)
(* The frame buffer: pix and zbuf map a pixel <<x, y>> to a colour         *)
(* <<r, g, b>> and to a depth.                                             *)
(***************************************************************************)
Pixels(size) == (0..(size - 1)) \X (0..(size - 1))

\* draw_grid: every step-th column and row is overwritten by the grid
\* colour blended over the background colour.
draw_grid(pixv, size, bg_rgb, grid_rgb, step, alpha) ==
    IF step <= 0 \/ clamp01(alpha) <= 0 THEN pixv
    ELSE LET col == blend_rgb(bg_rgb, grid_rgb, clamp01(alpha))
         IN  [p \in Pixels(size) |->
                 IF p[1] % step = 0 \/ p[2] % step = 0 THEN col ELSE pixv[p]]

\* The i-th sample of draw_line_z's loop: the pixel <<xi, yi>> and the
\* interpolated depth z at t = i / steps.
line_steps(p0, p1) == Max2(Abs(p1[1] - p0[1]), Abs(p1[2] - p0[2]))

line_sample(p0, p1, i) ==
    LET steps == line_steps(p0, p1)
    IN  [xi |-> round(p0[1] * steps + (p1[1] - p0[1]) * i, steps),
         yi |-> round(p0[2] * steps + (p1[2] - p0[2]) * i, steps),
         z  |-> Frac(p0[3][1] * p1[3][2] * (steps - i)
                         + p1[3][1] * p0[3][2] * i,
                     p0[3][2] * p1[3][2] * steps)]

\* The depth buffer of a line drawing that stores the depth of every pixel
\* it blends, as the face loop does.
line_zbuf_written(zb, xi, yi, z) == [zb EXCEPT ![<<xi, yi>>] = z]

\* The depth buffer after one sample of a line: draw_line_z does not
\* write it.
line_zbuf_after(zb, xi, yi, z) == zb

\* draw_line_z's loop from sample i on; the result is [pix, zbuf].
RECURSIVE draw_line_from(_, _, _, _, _, _, _, _)
draw_line_from(pixv, zb, p0, p1, color, a, size, i) ==
    IF i > line_steps(p0, p1) THEN [pix |-> pixv, zbuf |-> zb]
    ELSE LET sm == line_sample(p0, p1, i)
             p  == <<sm.xi, sm.yi>>
         IN  IF sm.xi < 0 \/ sm.xi >= size \/ sm.yi < 0 \/ sm.yi >= size
             THEN draw_line_from(pixv, zb, p0, p1, color, a, size, i + 1)
             ELSE IF ~DepthLess(sm.z, zb[p])
             THEN draw_line_from(pixv, zb, p0, p1, color, a, size, i + 1)
             ELSE draw_line_from(
                      [pixv EXCEPT ![p] = blend_rgb(pixv[p], color, a)],
                      line_zbuf_after(zb, sm.xi, sm.yi, sm.z),
                      p0, p1, color, a, size, i + 1)

\* draw_line_z(img, zbuf, p0, p1, color, alpha): [pix, zbuf] afterwards.
draw_line_z(pixv, zb, p0, p1, color, alpha, size) ==
    IF clamp01(alpha) <= 0 \/ line_steps(p0, p1) <= 0
    THEN [pix |-> pixv, zbuf |-> zb]
    ELSE draw_line_from(pixv, zb, p0, p1, color, clamp01(alpha), size, 0)

\* n/d is a whole number and a half.
HalfTie(n, d) == (2 * n) % d = 0 /\ n % d # 0

\* Every rounding, depth test and blend of the draw_line_z call is
\* decided: t = i / steps is exact wherever x or y is a half or the depth
\* equals the buffer's (and then the end depths are exact too).
line_decided(pixv, zb, p0, p1, color, alpha, size) ==
    \/ clamp01(alpha) <= 0
    \/ line_steps(p0, p1) <= 0
    \/ \A i \in 0..line_steps(p0, p1) :
          /\ HalfTie((p1[1] - p0[1]) * i, line_steps(p0, p1))
                 => ExactQuotient(i, line_steps(p0, p1))
          /\ HalfTie((p1[2] - p0[2]) * i, line_steps(p0, p1))
                 => ExactQuotient(i, line_steps(p0, p1))
          /\ <<line_sample(p0, p1, i).xi, line_sample(p0, p1, i).yi>>
                 \in Pixels(size)
                 => /\ DepthTie(line_sample(p0, p1, i).z,
                                zb[<<line_sample(p0, p1, i).xi,
                                     line_sample(p0, p1, i).yi>>])
                        => /\ ExactQuotient(i, line_steps(p0, p1))
                           /\ IsPow2(p0[3][2])
                           /\ IsPow2(p1[3][2])
                    /\ DepthLess(line_sample(p0, p1, i).z,
                                 zb[<<line_sample(p0, p1, i).xi,
                                      line_sample(p0, p1, i).yi>>])
                        => blend_decided(
                               pixv[<<line_sample(p0, p1, i).xi,
                                      line_sample(p0, p1, i).yi>>],
                               color, alpha)

(***************************************************************************)
(* One iteration of render's face loop.                                    *)
(***************************************************************************)
\* x < -2 or x > 2 for a rational x.
OutsideTwo(x) == x[1] < -2 * x[2] \/ x[1] > 2 * x[2]

\* The backface test: the face is skipped when fn[2] >= 0 (Python's
\* fn[2] is the z component).
backface(a, b, c) == v_cross(v_sub(b, a), v_sub(c, a))[3] >= 0

\* A face_setup whose pixel box is clamped to size instead of size - 1.
face_setup_clamp_at_size(a, b, c, f, size, two_sided) ==
    LET pa == project_persp(a, f)
        pb == project_persp(b, f)
        pc2 == project_persp(c, f)
        A  == to_px(pa[1], pa[2], size)
        B  == to_px(pb[1], pb[2], size)
        C  == to_px(pc2[1], pc2[2], size)
        minx == Max2(0, SetMin({A[1], B[1], C[1]}))
        maxx == Min2(size, SetMax({A[1], B[1], C[1]}))
        miny == Max2(0, SetMin({A[2], B[2], C[2]}))
        maxy == Min2(size, SetMax({A[2], B[2], C[2]}))
        denom == (B[2] - C[2]) * (A[1] - C[1]) + (C[1] - B[1]) * (A[2] - C[2])
        outcome ==
            IF ~two_sided /\ backface(a, b, c) THEN "culled"
            ELSE IF \/ (OutsideTwo(pa[1]) /\ OutsideTwo(pb[1])
                            /\ OutsideTwo(pc2[1]))
                    \/ (OutsideTwo(pa[2]) /\ OutsideTwo(pb[2])
                            /\ OutsideTwo(pc2[2]))
                 THEN "rejected"
            ELSE IF minx >= maxx \/ miny >= maxy THEN "empty_box"
            ELSE IF denom = 0 THEN "zero_denom"
            ELSE "drawn"
    IN  [outcome |-> outcome, A |-> A, B |-> B, C |-> C,
         minx |-> minx, maxx |-> maxx, miny |-> miny, maxy |-> maxy,
         denom |-> denom, za |-> pa[3], zb |-> pb[3], zc |-> pc2[3]]

\* Everything the loop body computes before its pixel loop, for the
\* camera-space vertices a, b, c: which continue is taken ("culled",
\* "rejected", "empty_box", "zero_denom") or "drawn", and the values the
\* pixel loop uses.
face_setup(a, b, c, f, size, two_sided) ==
    LET pa == project_persp(a, f)
        pb == project_persp(b, f)
        pc2 == project_persp(c, f)
        A  == to_px(pa[1], pa[2], size)
        B  == to_px(pb[1], pb[2], size)
        C  == to_px(pc2[1], pc2[2], size)
        minx == Max2(0, SetMin({A[1], B[1], C[1]}))
        maxx == Min2(size - 1, SetMax({A[1], B[1], C[1]}))
        miny == Max2(0, SetMin({A[2], B[2], C[2]}))
        maxy == Min2(size - 1, SetMax({A[2], B[2], C[2]}))
        denom == (B[2] - C[2]) * (A[1] - C[1]) + (C[1] - B[1]) * (A[2] - C[2])
        outcome ==
            IF ~two_sided /\ backface(a, b, c) THEN "culled"
            ELSE IF \/ (OutsideTwo(pa[1]) /\ OutsideTwo(pb[1])
                            /\ OutsideTwo(pc2[1]))
                    \/ (OutsideTwo(pa[2]) /\ OutsideTwo(pb[2])
                            /\ OutsideTwo(pc2[2]))
                 THEN "rejected"
            ELSE IF minx >= maxx \/ miny >= maxy THEN "empty_box"
            ELSE IF denom = 0 THEN "zero_denom"
            ELSE "drawn"
    IN  [outcome |-> outcome, A |-> A, B |-> B, C |-> C,
         minx |-> minx, maxx |-> maxx, miny |-> miny, maxy |-> maxy,
         denom |-> denom, za |-> pa[3], zb |-> pb[3], zc |-> pc2[3]]

\* The barycentric weights of pixel p times denom, with the sign of denom
\* moved into them: <<W0, W1, W2, |denom|>>, w_i = W_i / |denom|.
bary(fs, p) ==
    LET s  == IF fs.denom < 0 THEN -1 ELSE 1
        W0 == (fs.B[2] - fs.C[2]) * (p[1] - fs.C[1])
                  + (fs.C[1] - fs.B[1]) * (p[2] - fs.C[2])
        W1 == (fs.C[2] - fs.A[2]) * (p[1] - fs.C[1])
                  + (fs.A[1] - fs.C[1]) * (p[2] - fs.C[2])
    IN  <<s * W0, s * W1, s * (fs.denom - W0 - W1), s * fs.denom>>

\* The pixel loop reaches its depth test at p: the face is drawn, p is in
\* the clamped box, and no weight is negative.
covers(fs, p) ==
    /\ fs.outcome = "drawn"
    /\ fs.minx <= p[1] /\ p[1] <= fs.maxx
    /\ fs.miny <= p[2] /\ p[2] <= fs.maxy
    /\ LET w == bary(fs, p) IN w[1] >= 0 /\ w[2] >= 0 /\ w[3] >= 0

\* The test w2 < 0 is decided at every pixel of the box: where 1 - w0 - w1
\* is exactly 0, the quotients w0 and w1 are exact.
covers_decided(fs, size) ==
    \A p \in Pixels(size) :
        (covers(fs, p) /\ bary(fs, p)[3] = 0)
            => ExactQuotient(bary(fs, p)[1], bary(fs, p)[4])

\* z = w0 * za + w1 * zb + w2 * zc at p.
face_depth(fs, p) ==
    LET w == bary(fs, p)
    IN  Frac(w[1] * fs.za[1] * fs.zb[2] * fs.zc[2]
                 + w[2] * fs.zb[1] * fs.za[2] * fs.zc[2]
                 + w[3] * fs.zc[1] * fs.za[2] * fs.zb[2],
             w[4] * fs.za[2] * fs.zb[2] * fs.zc[2])

\* A depth test that skips the pixel only if z > zbuf[py][px].
depth_pass_on_ties(z, cur) == ~DepthLess(cur, z)

\* The depth test of the pixel loop: the pixel is written unless
\* z >= zbuf[py][px].
depth_pass(z, cur) == DepthLess(z, cur)

\* floor(sqrt(v)) by Newton's iteration from s >= floor(sqrt(v)).
RECURSIVE ISqrtFrom(_, _)
ISqrtFrom(v, s) ==
    IF s * s <= v THEN s ELSE ISqrtFrom(v, (s + v \div s) \div 2)

ISqrt(v) == IF v = 0 THEN 0 ELSE ISqrtFrom(v, Min2(v, 46340))

\* A shading without the ambient term: int(c * clamp01(0.90 * ndotl)).
shade_channel_no_ambient(c, n, l) ==
    LET dt == Max2(0, v_dot(n, l))
        m  == v_dot(n, n) * v_dot(l, l)
        g  == Gcd(dt * dt, m)
    IN  IF m = 0 \/ dt = 0 THEN 0
        ELSE Min2(c, ISqrt((81 * c * c * ((dt * dt) \div g))
                               \div (m \div g)) \div 10)

\* int(c * shade) with shade = clamp01(0.20 + 0.90 * clamp01(n . light)),
\* for the unit vectors of directions n and l: with q = n . light >= 0,
\* the channel is min(c, floor((2 c + 9 c q) / 10)), and (c q)^2 is the
\* rational c^2 (n.l)^2 / (|n|^2 |l|^2).
shade_channel(c, n, l) ==
    LET dt == Max2(0, v_dot(n, l))
        m  == v_dot(n, n) * v_dot(l, l)
        g  == Gcd(dt * dt, m)
    IN  IF m = 0 \/ dt = 0 THEN (2 * c) \div 10
        ELSE Min2(c, (2 * c + ISqrt((81 * c * c * ((dt * dt) \div g))
                                        \div (m \div g))) \div 10)

\* The truncation int(c * shade) is decided.  Without light on the face
\* shade is the float 0.2, a little above 1/5, and the product truncates
\* to floor(c / 5); clamped, shade is 1.0.  Otherwise the product must be
\* no whole number.
shade_decided(c, n, l) ==
    LET dt == Max2(0, v_dot(n, l))
        m  == v_dot(n, n) * v_dot(l, l)
        g  == Gcd(dt * dt, m)
        v  == 81 * c * c * ((dt * dt) \div g)
    IN  \/ m = 0
        \/ dt = 0
        \/ 81 * dt * dt > 64 * m
        \/ v % (m \div g) # 0
        \/ ISqrt(v \div (m \div g)) * ISqrt(v \div (m \div g))
               # v \div (m \div g)
        \/ (2 * c + ISqrt(v \div (m \div g))) % 10 # 0

shade_rgb(color_rgb, n, l) ==
    <<shade_channel(color_rgb[1], n, l), shade_channel(color_rgb[2], n, l),
      shade_channel(color_rgb[3], n, l)>>

(***************************************************************************)
(* auto_upright_rotation(tris, center, radius), on triangles in units.  A  *)
(* direction is the whole-number vector of lowest terms along it; the      *)
(* rotation rotation_from_to(d, up) is held as the direction d it turns    *)
(* upward: its third row is d as a unit vector, so the rotated height of a *)
(* point p is dot(d, p) / |d|.  Areas are doubled.                         *)
(***************************************************************************)
\* tri_normal(t) as a direction; <<0, 0, 0>> for a triangle of area 0.
tri_dir(t) == v_dir(tri_weighted_normal(t))

\* |d| for a direction whose length is a whole number.
dir_len(d) == ISqrt(v_dot(d, d))

exact_len(d) == dir_len(d) * dir_len(d) = v_dot(d, d)

\* 2 * tri_area(t) = |cross(ab, ac)|, in square units.
tri_area2(t) ==
    LET c == tri_weighted_normal(t)
    IN  Gcd(Gcd(c[1], c[2]), c[3]) * dir_len(tri_dir(t))

\* scored: (area, normal) of the triangles with area > 1e-10 (on the grid:
\* > 0), in input order.
RECURSIVE scored_from(_, _)
scored_from(tris, i) ==
    IF i > Len(tris) THEN <<>>
    ELSE IF tri_area2(tris[i]) <= 0 THEN scored_from(tris, i + 1)
    ELSE <<<<tri_area2(tris[i]), tri_dir(tris[i])>>>>
             \o scored_from(tris, i + 1)

\* One element put into a list sorted by descending area, behind the
\* elements of the same area.
RECURSIVE insert_by_area(_, _)
insert_by_area(sorted, x) ==
    IF sorted = <<>> THEN <<x>>
    ELSE IF sorted[1][1] >= x[1]
         THEN <<sorted[1]>> \o insert_by_area(Tail(sorted), x)
         ELSE <<x>> \o sorted

\* scored.sort(key=area, reverse=True): descending, equal areas in the
\* order they had.
RECURSIVE sort_by_area_upto(_, _)
sort_by_area_upto(sc, n) ==
    IF n = 0 THEN <<>>
    ELSE insert_by_area(sort_by_area_upto(sc, n - 1), sc[n])

\* candidates = [n for _, n in scored[:250]]
candidates(sc) ==
    [i \in 1..Min2(Len(sc), 250) |-> sort_by_area_upto(sc, Len(sc))[i][2]]

\* (int(round(nn[0] * 20)), int(round(nn[1] * 20)), int(round(nn[2] * 20)))
quantized(d) ==
    <<round(20 * d[1], dir_len(d)), round(20 * d[2], dir_len(d)),
      round(20 * d[3], dir_len(d))>>

\* No component of nn * 20 is at a half, where the rounding of the float
\* decides.
quantized_decided(d) ==
    \A c \in 1..3 : (40 * d[c]) % dir_len(d) # 0 \/ (20 * d[c]) % dir_len(d) = 0

\* uniq.setdefault(k, nn) over the candidates: the values of uniq in the
\* order of insertion, the first direction of every key.
RECURSIVE uniq_upto(_, _)
uniq_upto(cands, n) ==
    IF n = 0 THEN <<>>
    ELSE IF \E j \in 1..(n - 1) : quantized(cands[j]) = quantized(cands[n])
         THEN uniq_upto(cands, n - 1)
         ELSE Append(uniq_upto(cands, n - 1), cands[n])

\* test_dirs: every nn followed by v_mul(nn, -1.0).
test_dirs_of(u) ==
    [i \in 1..(2 * Len(u)) |->
        IF i % 2 = 1 THEN u[(i + 1) \div 2]
        ELSE <<-u[i \div 2][1], -u[i \div 2][2], -u[i \div 2][3]>>]

test_dirs(tris) ==
    test_dirs_of(uniq_upto(candidates(scored_from(tris, 1)),
                           Len(candidates(scored_from(tris, 1)))))

\* vr[2] * |d| for the vertex v: the rotated height of v - center, times
\* the length of d.
height(v, center, d) == v_dot(d, v_sub(v, center))

\* minz * |d|
min_height(tris, center, d) ==
    SetMin({height(tris[t][v], center, d) : t \in 1..Len(tris), v \in 1..3})

\* max(v[2] for v in vs) * |d| for the triangle t.
top_height(t, center, d) ==
    SetMax({height(t[v], center, d) : v \in 1..3})

\* max(v[2] for v in vs) <= minz + eps, eps = 0.01 * radius.
on_bottom(t, minh, center, radius, d) ==
    100 * (top_height(t, center, d) - minh) <= radius * dir_len(d)

\* The same at a tie, where the rounding of the floats decides.
on_bottom_tie(t, minh, center, radius, d) ==
    100 * (top_height(t, center, d) - minh) = radius * dir_len(d)

\* support * 2: the doubled areas of the triangles of positive area on
\* the bottom plane, summed from triangle i on.
RECURSIVE support_from(_, _, _, _, _, _)
support_from(tris, i, minh, center, radius, d) ==
    IF i > Len(tris) THEN 0
    ELSE (IF tri_area2(tris[i]) > 0
             /\ on_bottom(tris[i], minh, center, radius, d)
          THEN tri_area2(tris[i]) ELSE 0)
             + support_from(tris, i + 1, minh, center, radius, d)

support(tris, center, radius, d) ==
    support_from(tris, 1, min_height(tris, center, d), center, radius, d)

\* rotation_from_to(d, up), up = (0, 0, 1): the identity for d = up.
rotation_from_to(d) == [upward |-> d]

identity == rotation_from_to(<<0, 0, 1>>)

\* The loop over test_dirs that replaces the best rotation at every
\* score that is no greater than the best so far.
RECURSIVE best_from_last(_, _, _, _, _, _, _)
best_from_last(tris, center, radius, dirs, i, best_score, best_R) ==
    IF i > Len(dirs) THEN best_R
    ELSE IF support(tris, center, radius, dirs[i]) >= best_score
         THEN best_from_last(tris, center, radius, dirs, i + 1,
                             support(tris, center, radius, dirs[i]),
                             rotation_from_to(dirs[i]))
         ELSE best_from_last(tris, center, radius, dirs, i + 1, best_score,
                             best_R)

\* The loop over test_dirs from direction i on: if support > best_score,
\* the score and the rotation are replaced.
RECURSIVE best_from(_, _, _, _, _, _, _)
best_from(tris, center, radius, dirs, i, best_score, best_R) ==
    IF i > Len(dirs) THEN best_R
    ELSE IF support(tris, center, radius, dirs[i]) > best_score
         THEN best_from(tris, center, radius, dirs, i + 1,
                        support(tris, center, radius, dirs[i]),
                        rotation_from_to(dirs[i]))
         ELSE best_from(tris, center, radius, dirs, i + 1, best_score,
                        best_R)

\* best_R = identity and best_score = -1.0 before the loop.
auto_upright_rotation(tris, center, radius) ==
    best_from(tris, center, radius, test_dirs(tris), 1, -1, identity)

\* The areas, the quantized keys and the bottom tests of the call are
\* decided by exact arithmetic.
upright_decided(tris, center, radius) ==
    /\ \A t \in 1..Len(tris) : exact_len(tri_dir(tris[t]))
    /\ \A t \in 1..Len(tris) :
           tri_area2(tris[t]) > 0 => quantized_decided(tri_dir(tris[t]))
    /\ \A i \in 1..Len(test_dirs(tris)) : \A t \in 1..Len(tris) :
           ~on_bottom_tie(tris[t],
                          min_height(tris, center, test_dirs(tris)[i]),
                          center, radius, test_dirs(tris)[i])

(***************************************************************************)
(* The camera set-up of render (up to the creation of the image), for      *)
(* azim_deg = elev_deg = 0 and auto_upright off: both rotations are then   *)
(* the identity (cos 0 = 1 and sin 0 = 0 exactly), so the camera looks     *)
(* down the object's -z axis.  f = 1 / tan(fov / 2) is given directly.     *)
(***************************************************************************)
\* max(extent) / 2 as it is, without the replacement.
mesh_radius_unguarded(vmin, vmax) ==
    SetMax({vmax[k] - vmin[k] : k \in 1..3}) \div 2

\* radius = max(extent) / 2, replaced by 1.0 when <= 1e-9 (on the grid: 0).
mesh_radius(vmin, vmax) ==
    LET r == SetMax({vmax[k] - vmin[k] : k \in 1..3}) \div 2
    IN  IF r <= 0 THEN Unit ELSE r

\* center = (vmin + vmax) * 0.5
mesh_center(vmin, vmax) ==
    <<(vmin[1] + vmax[1]) \div 2, (vmin[2] + vmax[2]) \div 2,
      (vmin[3] + vmax[3]) \div 2>>

\* The vertices centred and moved to camera space, the light, and the
\* height of the ground plane: min z of the centred vertices - 0.02 radius.
camera_setup(mesh, center, radius, d, a) ==
    [center |-> center, radius |-> radius, d |-> d,
     verts |-> mesh.verts, faces |-> mesh.faces, n1 |-> mesh.norms,
     vcam |-> [i \in 1..Len(mesh.verts) |->
                  v_sub(v_sub(mesh.verts[i], center), <<0, 0, d>>)],
     light |-> v_dir(a.light_dir),
     z_plane |-> SetMin({mesh.verts[i][3] - center[3] :
                            i \in 1..Len(mesh.verts)})
                     - (2 * radius) \div 100]

placed(mesh, center, radius, a) ==
    camera_setup(mesh, center, radius,
                 camera_distance(radius, a.f, a.margin), a)

framed(trisU, bb, a) ==
    placed(build_vertex_normals(trisU), mesh_center(bb[1], bb[2]),
           mesh_radius(bb[1], bb[2]), a)

MeshInUnits(trisF) ==
    [t \in 1..Len(trisF) |-> [v \in 1..3 |-> PointInUnits(trisF[t][v])]]

render_setup(trisF, a) ==
    framed(MeshInUnits(trisF), bounds(MeshInUnits(trisF)), a)

\* obj_to_cam followed by cam_to_screen.
obj_to_screen(p, c, a) == cam_to_screen(v_sub(p, <<0, 0, c.d>>), a.f, a.size)

\* The ends, in object-centred coordinates, of the ground grid's lines in
\* drawing order: first the lines of constant x, then those of constant y,
\* each from -ext while the coordinate is <= ext + 1e-9, in steps of step.
ground_ends(ext, step, n, z) ==
    [j \in 1..(2 * n) |->
        IF j <= n
        THEN <<<<-ext + (j - 1) * step, -ext, z>>,
               <<-ext + (j - 1) * step, ext, z>>>>
        ELSE <<<<-ext, -ext + (j - n - 1) * step, z>>,
               <<ext, -ext + (j - n - 1) * step, z>>>>]

ground_step_of(ext, ground_step) ==
    IF ground_step > 0 THEN ground_step ELSE (2 * ext) \div 10

ground_ends_of(ext, step, z) ==
    ground_ends(ext, step, (2 * ext) \div step + 1, z)

ground_points(c, a) ==
    ground_ends_of((c.radius * a.ground_extent) \div 100,
                   ground_step_of((c.radius * a.ground_extent) \div 100,
                                  a.ground_step),
                   c.z_plane)

\* The draw_line_z calls of the ground grid, in order, as <<p0, p1>>.
ground_lines(c, a) ==
    [j \in 1..Len(ground_points(c, a)) |->
        <<obj_to_screen(ground_points(c, a)[j][1], c, a),
          obj_to_screen(ground_points(c, a)[j][2], c, a)>>]

\* The pixel of every end of a ground line is decided.
ground_decided(c, a) ==
    \A j \in 1..Len(ground_points(c, a)) : \A e \in 1..2 :
        /\ px_clear(project_persp(v_sub(ground_points(c, a)[j][e],
                                        <<0, 0, c.d>>), a.f)[1], a.size)
        /\ py_clear(project_persp(v_sub(ground_points(c, a)[j][e],
                                        <<0, 0, c.d>>), a.f)[2], a.size)

\* The ends of the axis triad's lines, from the origin o on the ground
\* plane: <<p1 of X, p1 of Y, p1 of Z>>.
axes_ends(len, z) == <<<<len, 0, z>>, <<0, len, z>>, <<0, 0, z + len>>>>

axes_points(c, a) == axes_ends((c.radius * a.axes_len) \div 100, c.z_plane)

\* The three draw_line_z calls of the axis triad: <<p0, p1, colour>>.
axes_lines(c, a) ==
    [j \in 1..3 |->
        <<obj_to_screen(<<0, 0, c.z_plane>>, c, a),
          obj_to_screen(axes_points(c, a)[j], c, a),
          <<<<220, 60, 60>>, <<60, 200, 120>>, <<80, 140, 240>>>>[j]>>]

\* The pixel of every end of an axis is decided: the coordinates 0.0 are
\* exact, the x of the X axis and the y of the Y axis are rounded.
axes_decided(c, a) ==
    /\ px_clear(project_persp(v_sub(axes_points(c, a)[1], <<0, 0, c.d>>),
                              a.f)[1], a.size)
    /\ py_clear(project_persp(v_sub(axes_points(c, a)[2], <<0, 0, c.d>>),
                              a.f)[2], a.size)

\* What the loop body does with face k of the camera set-up c.
face_of(c, a, k) ==
    face_setup(c.vcam[c.faces[k][1]], c.vcam[c.faces[k][2]],
               c.vcam[c.faces[k][3]], a.f, a.size, a.two_sided)

\* The colour the pixel loop writes for face k.  The three vertex normals
\* of every face of the model's meshes are equal, so their interpolation
\* (weights summing to 1) and renormalisation give that normal.
face_colour(c, a, k) == shade_rgb(a.color_rgb, c.n1[c.faces[k][1]], c.light)

UniformNormals(c) ==
    \A k \in 1..Len(c.faces) :
        /\ c.n1[c.faces[k][1]] = c.n1[c.faces[k][2]]
        /\ c.n1[c.faces[k][1]] = c.n1[c.faces[k][3]]

\* Every vertex is in front of the camera and every truncation of the
\* set-up and of the face loop is decided.
setup_decided(c, a) ==
    /\ \A i \in 1..Len(c.vcam) :
           /\ c.vcam[i][3] < 0
           /\ to_px_decided(project_persp(c.vcam[i], a.f)[1],
                            project_persp(c.vcam[i], a.f)[2], a.size)
    /\ \A j \in 1..Len(c.faces) :
           /\ covers_decided(face_of(c, a, j), a.size)
           /\ \A ch \in 1..3 :
                  shade_decided(a.color_rgb[ch], c.n1[c.faces[j][1]], c.light)
    /\ a.grid => blend_decided(a.bg_rgb, a.grid_rgb, a.grid_alpha)
    /\ a.ground_grid => ground_decided(c, a)
    /\ a.axes => axes_decided(c, a)

\* The depth test of face k is decided: where the face's depth equals the
\* buffer's, the weights of the faces so far are exact (their denom is a
\* power of two).
face_decided(zb, c, a, k) ==
    \A p \in Pixels(a.size) :
        (covers(face_of(c, a, k), p)
             /\ DepthTie(face_depth(face_of(c, a, k), p), zb[p]))
            => \A j \in 1..k :
                   face_of(c, a, j).outcome = "drawn"
                       => IsPow2(Abs(face_of(c, a, j).denom))

\* One iteration of the face loop: [pix, zbuf] afterwards.
draw_face(pixv, zb, c, a, k) ==
    LET fs  == face_of(c, a, k)
        col == face_colour(c, a, k)
        hit == {p \in Pixels(a.size) :
                   covers(fs, p) /\ depth_pass(face_depth(fs, p), zb[p])}
    IN  [pix  |-> [p \in Pixels(a.size) |-> IF p \in hit THEN col ELSE pixv[p]],
         zbuf |-> [p \in Pixels(a.size) |->
                      IF p \in hit THEN face_depth(fs, p) ELSE zb[p]]]

(***************************************************************************)
(* The indices the three drawing routines use on the image and on the      *)
(* depth buffer, <<x, y>> for pix[x, y] and zbuf[y][x], and the values     *)
(* they divide by.                                                         *)
(***************************************************************************)
\* range(0, n, step) for a step > 0: 0, step, 2 step, ... below n.
range_by(n, step) == { i * step : i \in 0..(((n + step - 1) \div step) - 1) }

\* draw_grid writes pix[x, y] in its two double loops.
grid_indices(size, step, alpha) ==
    IF step <= 0 \/ clamp01(alpha) <= 0 THEN {}
    ELSE (range_by(size, step) \X (0..(size - 1)))
             \cup ((0..(size - 1)) \X range_by(size, step))

\* draw_line_z reads zbuf[yi][xi], and reads and writes pix[xi, yi], at
\* the samples that pass its test xi < 0 or xi >= w or yi < 0 or yi >= h.
line_indices(p0, p1, alpha, size) ==
    IF clamp01(alpha) <= 0 \/ line_steps(p0, p1) <= 0 THEN {}
    ELSE { <<line_sample(p0, p1, i).xi, line_sample(p0, p1, i).yi>> :
             i \in { j \in 0..line_steps(p0, p1) :
                       ~ \/ line_sample(p0, p1, j).xi < 0
                         \/ line_sample(p0, p1, j).xi >= size
                         \/ line_sample(p0, p1, j).yi < 0
                         \/ line_sample(p0, p1, j).yi >= size } }

\* draw_line_z divides by steps (t = i / steps) in its loop.
line_divisors(p0, p1, alpha) ==
    IF clamp01(alpha) <= 0 \/ line_steps(p0, p1) <= 0 THEN {}
    ELSE {line_steps(p0, p1)}

\* The pixel loop of a face reads zbuf[py][px], and then writes it and
\* pix[px, py], at the pixels of its box where no weight is negative.
face_indices(fs) ==
    IF fs.outcome # "drawn" THEN {}
    ELSE { p \in (fs.minx..fs.maxx) \X (fs.miny..fs.maxy) :
             /\ bary(fs, p)[1] >= 0
             /\ bary(fs, p)[2] >= 0
             /\ bary(fs, p)[3] >= 0 }

\* The weight tests of the pixel loop are decided for the camera-space
\* corners a, b, c: the truncations of to_px are, and so is w2 < 0.
weights_decided(a, b, c, f, size, two_sided) ==
    /\ \A v \in {a, b, c} :
           to_px_decided(project_persp(v, f)[1], project_persp(v, f)[2], size)
    /\ covers_decided(face_setup(a, b, c, f, size, two_sided), size)

\* The same where the weight tests fall on a tie of float arithmetic:
\* any pixel of the box may pass them.
face_indices_at_ties(fs) ==
    IF fs.outcome # "drawn" THEN {}
    ELSE (fs.minx..fs.maxx) \X (fs.miny..fs.maxy)

\* The pixel loop divides by denom (w0 and w1) at every pixel of the box.
face_divisors(fs) ==
    IF fs.outcome = "drawn" /\ fs.minx <= fs.maxx /\ fs.miny <= fs.maxy
    THEN {fs.denom}
    ELSE {}

(***************************************************************************)
(* The files render is run on.  They are written by the encoders below     *)
(* (the counterparts of struct.pack and of a text writer), from triangle   *)
(* lists whose coordinates are whole or half numbers.                      *)
(***************************************************************************)
\* The most records a generated binary file declares or holds.
MaxRecs == 2

\* The most vertex lines of a generated ASCII file.
MaxVertexLines == 6

\* The side of the image in pixels.
ImageSize == 6

I3(x, y, z) == <<<<x, 1>>, <<y, 1>>, <<z, 1>>>>

Rev(t) == <<t[1], t[3], t[2]>>

\* A triangle parallel to the image plane at height z, counter-clockwise
\* seen from +z (from the camera): its normal cross(b-a, c-a) is +z.
Flat(z) == <<I3(0, 1, z), I3(-1, -1, z), I3(1, -1, z)>>

\* A tilted triangle below Flat(1), of normal direction (0, 1, 2).
Tilt == <<I3(0, 1, -2), I3(-1, -1, -1), I3(1, -1, -1)>>

\* A smaller triangle with half-number coordinates.
Half == <<<<<<-1, 2>>, <<-1, 2>>, <<0, 1>>>>, <<<<3, 2>>, <<-1, 2>>, <<0, 1>>>>,
          <<<<-1, 2>>, <<3, 2>>, <<0, 1>>>>>>

\* Two triangles sharing an edge and four vertices.
Quad == <<<<I3(-1, -1, 0), I3(1, -1, 0), I3(1, 1, 0)>>,
          <<I3(-1, -1, 0), I3(1, 1, 0), I3(-1, 1, 0)>>>>

\* A triangle whose three vertices coincide, and one whose vertices lie
\* on a line: both of area 0.
Point == <<I3(1, 1, 1), I3(1, 1, 1), I3(1, 1, 1)>>

Sliver == <<I3(-1, 0, 0), I3(0, 0, 0), I3(1, 0, 0)>>

DegenerateMeshes == { <<Point>>, <<Point, Point>>, <<Sliver>> }

\* Two overlapping triangles in one plane, of opposite normals and with no
\* common vertex, in both orders.
CoplanarMeshes == { <<Flat(0), Rev(Half)>>, <<Rev(Half), Flat(0)>> }

\* A far triangle that makes the mesh 8 wide, and near the camera a
\* triangle reaching from the left of the view to its right and one that
\* lies to the right of it; both face the camera's far side (normal -z).
Far == <<I3(-4, -1, -3), I3(0, 1, -3), I3(4, -1, -3)>>

Wide == <<I3(-3, -3, 3), I3(3, 3, 3), I3(3, -3, 3)>>

Aside == <<I3(3, -3, 3), I3(3, 3, 3), I3(4, -3, 3)>>

NearMeshes == { <<Wide, Far>>, <<Aside, Far>>, <<Far, Rev(Wide)>> }

SceneMeshes ==
    { <<Flat(0)>>, <<Rev(Flat(0))>>, <<Half>>,
      <<Flat(1), Tilt>>, <<Tilt, Flat(1)>>,
      <<Rev(Flat(1)), Rev(Tilt)>>, <<Rev(Tilt), Rev(Flat(1))>>,
      <<Flat(1), Rev(Tilt)>>, Quad } \cup DegenerateMeshes \cup CoplanarMeshes

\* struct.pack("<f", v) for a whole or half number v = n/d, 0 < |v| < 8,
\* and for 0.
f32_bytes(c) ==
    LET a    == (2 * Abs(c[1])) \div c[2]
        e    == IF a = 1 THEN -1 ELSE IF a <= 3 THEN 0 ELSE IF a <= 7 THEN 1
                ELSE 2
        E    == e + 127
        mant == a * Pow(2, 22 - e) - 8388608
        sb   == IF c[1] < 0 THEN 128 ELSE 0
    IN  IF c[1] = 0 THEN <<0, 0, 0, 0>>
        ELSE <<mant % 256, (mant \div 256) % 256,
               (E % 2) * 128 + mant \div 65536, sb + E \div 2>>

Zeros(k) == [i \in 1..k |-> 0]

\* s padded with the byte b to k bytes.
Pad(s, k, b) == s \o [i \in 1..(k - Len(s)) |-> b]

\* One 50-byte record: a zero normal, the nine coordinates, a zero
\* attribute.
record_bytes(t) ==
    Zeros(12)
        \o f32_bytes(t[1][1]) \o f32_bytes(t[1][2]) \o f32_bytes(t[1][3])
        \o f32_bytes(t[2][1]) \o f32_bytes(t[2][2]) \o f32_bytes(t[2][3])
        \o f32_bytes(t[3][1]) \o f32_bytes(t[3][2]) \o f32_bytes(t[3][3])
        \o Zeros(2)

RECURSIVE records_bytes(_)
records_bytes(tris) ==
    IF tris = <<>> THEN <<>>
    ELSE record_bytes(Head(tris)) \o records_bytes(Tail(tris))

\* struct.pack("<I", hi * 65536 + lo)
u32_bytes(hi, lo) == <<lo % 256, lo \div 256, hi % 256, hi \div 256>>

\* A binary STL: an 80-byte header, the declared count, the records.
binary_file(header, hi, lo, tris) ==
    header \o u32_bytes(hi, lo) \o records_bytes(tris)

\* "solid m\n"
T_solid ==
    <<115, 111, 108, 105, 100, 32, 109, 10>>

\* "facet normal 0 0 0\n outer loop\n"
T_facet_open ==
    <<102, 97, 99, 101, 116, 32, 110, 111, 114, 109, 97, 108, 32, 48, 32,
      48, 32, 48, 10, 32, 111, 117, 116, 101, 114, 32, 108, 111, 111, 112,
      10>>

\* " endloop\nendfacet\n"
T_facet_close ==
    <<32, 101, 110, 100, 108, 111, 111, 112, 10, 101, 110, 100, 102, 97,
      99, 101, 116, 10>>

\* "endsolid m\n"
T_endsolid ==
    <<101, 110, 100, 115, 111, 108, 105, 100, 32, 109, 10>>

\* "  vertex" (indented, as writers lay it out)
T_vertex ==
    <<32, 32, 118, 101, 114, 116, 101, 120>>

\* "solid m": a binary header that begins like an ASCII file
H_solid_name ==
    <<115, 111, 108, 105, 100, 32, 109>>

\* "solid facet": a binary header that passes the ASCII test
H_solid_facet ==
    <<115, 111, 108, 105, 100, 32, 102, 97, 99, 101, 116>>

\* a binary header that holds three well-formed vertex lines
H_vertex_lines ==
    <<115, 111, 108, 105, 100, 32, 102, 97, 99, 101, 116, 10, 118, 101,
      114, 116, 101, 120, 32, 48, 32, 48, 32, 48, 10, 118, 101, 114, 116,
      101, 120, 32, 49, 32, 48, 32, 48, 10, 118, 101, 114, 116, 101, 120,
      32, 48, 32, 49, 32, 48, 10>>

\* The 80-byte headers of the generated binary files.
Headers ==
    { Zeros(80), Pad(H_solid_name, 80, 32), Pad(H_solid_facet, 80, 0),
      Pad(H_vertex_lines, 80, 0) }

\* A number as a writer prints it: "plain" (2, -1, 0.5) or "exp", the
\* usual %e of STL writers (2.000000e+00, 5.000000e-01).
fmt(c, style) ==
    LET a    == Abs(c[1])
        sign == IF c[1] < 0 THEN <<45>> ELSE <<>>
        ip   == a \div c[2]
        half == c[2] = 2
    IN  IF style = "plain"
        THEN sign \o <<48 + ip>> \o (IF half THEN <<46, 53>> ELSE <<>>)
        ELSE IF ip = 0 /\ half
             THEN sign \o <<53, 46, 48, 48, 48, 48, 48, 48, 101, 45, 48, 49>>
             ELSE sign \o <<48 + ip, 46, IF half THEN 53 ELSE 48,
                            48, 48, 48, 48, 48, 101, 43, 48, 48>>

\* "  vertex x y z" and the end of line.
vertex_line(v, style, eol) ==
    T_vertex \o <<32>> \o fmt(v[1], style) \o <<32>> \o fmt(v[2], style)
        \o <<32>> \o fmt(v[3], style) \o eol

RECURSIVE facets_text(_, _, _)
facets_text(tris, style, eol) ==
    IF tris = <<>> THEN <<>>
    ELSE T_facet_open
             \o vertex_line(Head(tris)[1], style, eol)
             \o vertex_line(Head(tris)[2], style, eol)
             \o vertex_line(Head(tris)[3], style, eol)
             \o T_facet_close
             \o facets_text(Tail(tris), style, eol)

\* An ASCII STL of the triangle list, one facet block per triangle.
ascii_file(tris, style, eol) ==
    T_solid \o facets_text(tris, style, eol) \o T_endsolid

\* An ASCII file given line by line.  The kinds of vertex line: "a", "b",
\* "c" are well formed (the corners of a triangle); "two" and "four" carry two
\* and four coordinates; "word" carries a coordinate that is no number;
\* "tab" separates the keyword by a tab; "bare" is the keyword alone;
\* "glued" has no separator after the keyword.
LineKinds == {"a", "b", "c", "two", "four", "word", "tab", "bare", "glued"}

line_of(kind) ==
    CASE kind = "a" -> <<118, 101, 114, 116, 101, 120, 32, 45, 49, 32, 45, 49,
                         32, 48, 10>>
      [] kind = "b" -> <<118, 101, 114, 116, 101, 120, 32, 49, 32, 45, 49, 32,
                         48, 10>>
      [] kind = "c" -> <<118, 101, 114, 116, 101, 120, 32, 48, 32, 49, 32, 48,
                         10>>
      [] kind = "two" -> <<118, 101, 114, 116, 101, 120, 32, 48, 32, 49, 10>>
      [] kind = "four" -> <<118, 101, 114, 116, 101, 120, 32, 48, 32, 48, 32,
                            48, 32, 48, 10>>
      [] kind = "word" -> <<118, 101, 114, 116, 101, 120, 32, 48, 32, 120, 32,
                            48, 10>>
      [] kind = "tab" -> <<118, 101, 114, 116, 101, 120, 9, 48, 32, 48, 32,
                           48, 10>>
      [] kind = "bare" -> <<118, 101, 114, 116, 101, 120, 10>>
      [] kind = "glued" -> <<118, 101, 114, 116, 101, 120, 48, 32, 48, 32, 48,
                             10>>

RECURSIVE lines_text(_)
lines_text(kinds) ==
    IF kinds = <<>> THEN <<>>
    ELSE line_of(Head(kinds)) \o lines_text(Tail(kinds))

\* "solid m", "facet", the lines, and tail spaces at the end.
lines_file(kinds, tail) ==
    T_solid \o B_facet \o <<10>> \o lines_text(kinds)
        \o [i \in 1..tail |-> 32]

\* The first k of the well-formed lines a, b, c, a, b, c, ...
OkLines(k) == [i \in 1..k |-> <<"a", "b", "c">>[((i - 1) % 3) + 1]]

LineLists ==
    {OkLines(k) : k \in 0..MaxVertexLines}
        \cup { <<"a", "b", "two">>, <<"a", "b", "c", "two">>,
               <<"two", "a", "b", "c">>, <<"a", "b", "c", "four">>,
               <<"a", "word", "c">>, <<"a", "b", "c", "a", "word", "c">>,
               <<"tab", "tab", "tab">>, <<"a", "b", "tab", "c">>,
               <<"a", "b", "c", "bare">>, <<"a", "glued", "b", "c">>,
               <<"b", "c", "a", "c", "b", "a">> }

\* The triangles a generated binary file holds: the first k of these.
RecordList(k) == SubSeq(<<Flat(1), Tilt, Flat(0), Half>>, 1, k)

\* What Init knows of a file: the triangle list it is a valid encoding of
\* (enc "binary": 80-byte header, exact count, complete records; enc
\* "ascii": one facet block per triangle from the first byte on; enc
\* "none" otherwise), and what is wrong with it (fault "truncated": fewer
\* complete records than declared; "bad vertex": a vertex line without
\* three numeric coordinates; "" otherwise).
Origin(enc, mesh, fault) == [enc |-> enc, mesh |-> mesh, fault |-> fault]

\* Binary files, valid or not: any header, a declared count that may lie
\* (hi > 0: a count beyond 65535), and the last cut bytes missing.
binary_input(h, hi, lo, k, cut) ==
    [data   |-> Prefix(binary_file(h, hi, lo, RecordList(k)),
                       84 + 50 * k - cut),
     origin |-> IF hi = 0 /\ lo = k /\ cut = 0 /\ k > 0
                THEN Origin("binary", RecordList(k), "")
                ELSE IF hi > 0 \/ 50 * lo > 50 * k - cut
                THEN Origin("none", <<>>, "truncated")
                ELSE Origin("none", <<>>, "")]

BinaryInputs ==
    { binary_input(h, hi, lo, k, cut) :
        h \in Headers, hi \in {0, 65535}, lo \in 0..(MaxRecs + 1),
        k \in 0..MaxRecs, cut \in {0, 1, 49, 82} }

\* ASCII files given by their lines, short (under 84 bytes for up to five
\* lines) and long (80 trailing spaces).
LineInputs ==
    { [data   |-> lines_file(ks, tail),
       origin |-> IF \E i \in 1..Len(ks) :
                         ks[i] \in {"two", "four", "word", "bare"}
                  THEN Origin("none", <<>>, "bad vertex")
                  ELSE Origin("none", <<>>, "")] :
        ks \in LineLists, tail \in {0, 80} }

\* Valid ASCII encodings of the scene meshes, in both number styles and
\* line ends.
AsciiInputs ==
    { [data   |-> ascii_file(m, style, eol),
       origin |-> Origin("ascii", m, "")] :
        m \in SceneMeshes, style \in {"plain", "exp"},
        eol \in {<<10>>, <<13, 10>>} }

\* An ASCII file behind whitespace: w[1] bytes w[2] (spaces, or a few line
\* feeds).
PaddedInputs ==
    { [data   |-> [i \in 1..w[1] |-> w[2]]
                      \o ascii_file(<<Flat(0)>>, "plain", <<10>>),
       origin |-> Origin("none", <<>>, "")] :
        w \in {<<1, 32>>, <<2, 10>>, <<75, 32>>, <<76, 32>>, <<90, 32>>} }

\* An ASCII file whose first "facet" ends at byte 4096 (before = 4091) or
\* one byte later; NUL bytes fill the line before it.
LongInputs ==
    { [data   |-> T_solid \o [i \in 1..(before - Len(T_solid) - 1) |-> 0]
                      \o <<10>> \o B_facet \o <<10>> \o lines_text(OkLines(3)),
       origin |-> Origin("none", <<>>, "")] : before \in {4091, 4092} }

\* The scene meshes in their plain binary encoding.
SceneInputs ==
    { [data   |-> binary_file(Zeros(80), 0, Len(m), m),
       origin |-> Origin("binary", m, "")] : m \in SceneMeshes }

\* The meshes with a triangle near the camera, in the same encoding.
NearInputs ==
    { [data   |-> binary_file(Zeros(80), 0, Len(m), m),
       origin |-> Origin("binary", m, "")] : m \in NearMeshes }

\* Every file the loader is run on.
LoaderInputs ==
    BinaryInputs \cup LineInputs \cup AsciiInputs \cup PaddedInputs
        \cup LongInputs

\* render's arguments.  f = 1/tan(fov/2); margin and the opacities are in
\* hundredths, the extents in hundredths of the radius, ground_step in
\* units (0: automatic).
Args(two_sided, f, margin, grid, ground_grid, axes) ==
    [size |-> ImageSize, bg_rgb |-> <<11, 15, 21>>,
     color_rgb |-> <<76, 201, 240>>, f |-> f, margin |-> margin,
     light_dir |-> <<-4, -3, 10>>,
     grid |-> grid, grid_step |-> 3, grid_rgb |-> <<42, 49, 58>>,
     grid_alpha |-> 45,
     ground_grid |-> ground_grid, ground_step |-> 0, ground_extent |-> 135,
     ground_rgb |-> <<36, 48, 59>>, ground_alpha |-> 55,
     axes |-> axes, axes_len |-> 90, two_sided |-> two_sided]

DefaultArgs == Args(FALSE, 2, 0, FALSE, FALSE, FALSE)

SceneArgs ==
    { Args(ts, fm[1], fm[2], g, gg, ax) :
        ts \in BOOLEAN, fm \in {<<2, 0>>, <<1, 50>>}, g \in BOOLEAN,
        gg \in BOOLEAN, ax \in BOOLEAN }

\* A field of view of 90 degrees (f = 1) with no margin: the camera is one
\* radius from the centre of the mesh.
NearArgs ==
    { Args(ts, 1, 0, g, FALSE, FALSE) : ts \in BOOLEAN, g \in BOOLEAN }

(***************************************************************************)
(* render as a state machine.                                              *)
(***************************************************************************)
VARIABLES
    data,     \* the bytes of the file at stl_path
    origin,   \* what the file encodes (known to Init only)
    arg,      \* render's arguments
    pc,       \* where render is
    ascii,    \* the result of the read_stl_ascii call, once made
    binary,   \* the result of the read_stl_binary call, once made
    tris,     \* what read_stl returned
    cam,      \* the camera set-up
    pix,      \* the image, <<>> before Image.new and when not evaluated
    zbuf,     \* the depth buffer, <<>> as pix
    k,        \* the next line or face of the running loop
    lined,    \* the pixels a ground-grid line was blended into
    err,      \* the exception render ended with, "" if none
    made,     \* os.makedirs has created the output directory
    saved,    \* img.save has written the image file
    line,     \* the last draw_line_z call: <<p0, p1, color, alpha>>
    call,     \* the arguments of a function called on its own
    ret,      \* its locals while it runs, and what it returns
    prev      \* what an earlier run of render on the same input ended with

vars == <<data, origin, arg, pc, ascii, binary, tris, cam, pix, zbuf, k,
          lined, err, made, saved, line, call, ret, prev>>

\* No function is called on its own; no earlier run.
NoCall == <<>>

NoRun == <<>>

NotCalled == [ok |-> FALSE, tris |-> <<>>, err |-> "not called"]

NoCam == [center |-> <<0, 0, 0>>, radius |-> 0, d |-> 0, verts |-> <<>>,
          faces |-> <<>>, n1 |-> <<>>, vcam |-> <<>>, light |-> <<0, 0, 0>>,
          z_plane |-> 0]

Init ==
    /\ \/ \E i \in LoaderInputs :
              data = i.data /\ origin = i.origin /\ arg = DefaultArgs
       \/ \E i \in SceneInputs :
              data = i.data /\ origin = i.origin /\ arg \in SceneArgs
       \/ \E i \in NearInputs :
              data = i.data /\ origin = i.origin /\ arg \in NearArgs
    /\ pc = "read_stl"
    /\ ascii = NotCalled
    /\ binary = NotCalled
    /\ tris = <<>>
    /\ cam = NoCam
    /\ pix = <<>>
    /\ zbuf = <<>>
    /\ k = 0
    /\ lined = {}
    /\ err = ""
    /\ made = FALSE
    /\ saved = FALSE
    /\ line = <<>>
    /\ call = NoCall
    /\ ret = NoCall
    /\ prev = NoRun

\* A render that creates the output directory before it loads the file.
DetectAfterMakedirs ==
    /\ pc = "read_stl"
    /\ pc' = IF looks_ascii(data) THEN "ascii" ELSE "binary"
    /\ made' = TRUE
    /\ UNCHANGED <<data, origin, arg, ascii, binary, tris, cam, pix, zbuf, k,
                   lined, err, saved, line,
                   call, ret, prev>>

\* read_stl, the test of its if: ASCII is attempted or the binary parse
\* is called directly.
Detect ==
    /\ pc = "read_stl"
    /\ pc' = IF looks_ascii(data) THEN "ascii" ELSE "binary"
    /\ UNCHANGED <<data, origin, arg, ascii, binary, tris, cam, pix, zbuf, k,
                   lined, err, made, saved, line,
                   call, ret, prev>>

\* read_stl, the try block: the result of read_stl_ascii is returned, or
\* its exception is swallowed and the binary parse follows.
TryAscii ==
    /\ pc = "ascii"
    /\ ascii' = read_stl_ascii(decode(data))
    /\ IF ascii'.ok
       THEN pc' = "setup" /\ tris' = ascii'.tris
       ELSE pc' = "binary" /\ tris' = tris
    /\ UNCHANGED <<data, origin, arg, binary, cam, pix, zbuf, k, lined, err,
                   made, saved, line,
                   call, ret, prev>>

\* read_stl, its last line: the result of read_stl_binary is returned, or
\* its exception ends render.
ParseBinary ==
    /\ pc = "binary"
    /\ binary' = read_stl_binary(data)
    /\ IF binary'.ok
       THEN pc' = "setup" /\ tris' = binary'.tris /\ err' = err
       ELSE pc' = "raised" /\ tris' = tris /\ err' = binary'.err
    /\ UNCHANGED <<data, origin, arg, ascii, cam, pix, zbuf, k, lined, made,
                   saved, line,
                   call, ret, prev>>

\* A set-up that numbers the vertices and the faces in either order of the
\* triangles, as an iteration in hash order would.
SetupInHashOrder ==
    /\ pc = "setup"
    /\ IF EvaluableMesh(tris)
       THEN cam' \in {render_setup(tris, arg),
                      render_setup([i \in 1..Len(tris) |->
                                       tris[Len(tris) + 1 - i]], arg)}
       ELSE cam' = cam
    /\ pc' = IF /\ EvaluableMesh(tris)
                /\ UniformNormals(cam')
                /\ setup_decided(cam', arg)
             THEN "image"
             ELSE "unevaluated"
    /\ UNCHANGED <<data, origin, arg, ascii, binary, tris, pix, zbuf, k,
                   lined, err, made, saved, line,
                   call, ret, prev>>

\* render from the bounds to the light.  A scene the model does not
\* evaluate (coordinates that are no small whole or half numbers, a face
\* with different normals at its vertices, an undecided truncation) is
\* drawn by DrawUnevaluated; its camera is set up when the model holds its
\* coordinates.
Setup ==
    /\ pc = "setup"
    /\ cam' = IF EvaluableMesh(tris) THEN render_setup(tris, arg) ELSE cam
    /\ pc' = IF /\ EvaluableMesh(tris)
                /\ UniformNormals(render_setup(tris, arg))
                /\ setup_decided(render_setup(tris, arg), arg)
             THEN "image"
             ELSE "unevaluated"
    /\ UNCHANGED <<data, origin, arg, ascii, binary, tris, pix, zbuf, k,
                   lined, err, made, saved, line,
                   call, ret, prev>>

\* Everything render draws, for a mesh the model does not evaluate: the
\* drawing ends (with pixels the model does not know), or a float
\* conversion raises (int() of an infinity or a NaN).
DrawUnevaluated ==
    /\ pc = "unevaluated"
    /\ \/ pc' = "makedirs" /\ err' = err
       \/ pc' = "raised" /\ err' = "float conversion"
    /\ UNCHANGED <<data, origin, arg, ascii, binary, tris, cam, pix, zbuf, k,
                   lined, made, saved, line,
                   call, ret, prev>>

\* Image.new, draw_grid if grid is set, and the depth buffer of +infinity.
NewImage ==
    /\ pc = "image"
    /\ pix' = LET blank == [p \in Pixels(arg.size) |-> arg.bg_rgb]
              IN  IF arg.grid
                  THEN draw_grid(blank, arg.size, arg.bg_rgb, arg.grid_rgb,
                                 arg.grid_step, arg.grid_alpha)
                  ELSE blank
    /\ zbuf' = [p \in Pixels(arg.size) |-> Inf]
    /\ pc' = "ground"
    /\ k' = 1
    /\ UNCHANGED <<data, origin, arg, ascii, binary, tris, cam, lined, err,
                   made, saved, line,
                   call, ret, prev>>

\* The pixels the next draw_line_z call blends into.
LineHits(p0, p1, alpha) ==
    IF clamp01(alpha) <= 0 THEN {}
    ELSE { <<line_sample(p0, p1, i).xi, line_sample(p0, p1, i).yi>> :
             i \in { j \in 0..line_steps(p0, p1) :
                       /\ line_steps(p0, p1) > 0
                       /\ <<line_sample(p0, p1, j).xi,
                            line_sample(p0, p1, j).yi>> \in Pixels(arg.size)
                       /\ DepthLess(line_sample(p0, p1, j).z,
                                    zbuf[<<line_sample(p0, p1, j).xi,
                                           line_sample(p0, p1, j).yi>>]) } }

\* One draw_line_z call of the ground grid.
GroundLine ==
    /\ pc = "ground"
    /\ arg.ground_grid
    /\ k <= Len(ground_lines(cam, arg))
    /\ LET ln == ground_lines(cam, arg)[k]
           r  == draw_line_z(pix, zbuf, ln[1], ln[2], arg.ground_rgb,
                             arg.ground_alpha, arg.size)
       IN  IF line_decided(pix, zbuf, ln[1], ln[2], arg.ground_rgb,
                           arg.ground_alpha, arg.size)
           THEN /\ pix' = r.pix
                /\ zbuf' = r.zbuf
                /\ lined' = lined
                               \cup LineHits(ln[1], ln[2], arg.ground_alpha)
                /\ line' = <<ln[1], ln[2], arg.ground_rgb, arg.ground_alpha>>
                /\ k' = k + 1
                /\ pc' = pc
           ELSE /\ pc' = "unevaluated"
                /\ pix' = <<>>
                /\ zbuf' = <<>>
                /\ UNCHANGED <<lined, line, k>>
    /\ UNCHANGED <<data, origin, arg, ascii, binary, tris, cam, err, made,
                   saved,
                   call, ret, prev>>

\* The ground grid is off, or its last line is drawn.
GroundDone ==
    /\ pc = "ground"
    /\ ~arg.ground_grid \/ k > Len(ground_lines(cam, arg))
    /\ pc' = "axes"
    /\ k' = 1
    /\ UNCHANGED <<data, origin, arg, ascii, binary, tris, cam, pix, zbuf,
                   lined, err, made, saved, line,
                   call, ret, prev>>

\* One draw_line_z call of the axis triad (opacity 0.95).
AxisLine ==
    /\ pc = "axes"
    /\ arg.axes
    /\ k <= 3
    /\ LET ln == axes_lines(cam, arg)[k]
           r  == draw_line_z(pix, zbuf, ln[1], ln[2], ln[3], 95, arg.size)
       IN  IF line_decided(pix, zbuf, ln[1], ln[2], ln[3], 95, arg.size)
           THEN /\ pix' = r.pix
                /\ zbuf' = r.zbuf
                /\ line' = <<ln[1], ln[2], ln[3], 95>>
                /\ k' = k + 1
                /\ pc' = pc
           ELSE /\ pc' = "unevaluated"
                /\ pix' = <<>>
                /\ zbuf' = <<>>
                /\ UNCHANGED <<line, k>>
    /\ UNCHANGED <<data, origin, arg, ascii, binary, tris, cam, lined, err,
                   made, saved,
                   call, ret, prev>>

AxesDone ==
    /\ pc = "axes"
    /\ ~arg.axes \/ k > 3
    /\ pc' = "faces"
    /\ k' = 1
    /\ UNCHANGED <<data, origin, arg, ascii, binary, tris, cam, pix, zbuf,
                   lined, err, made, saved, line,
                   call, ret, prev>>

\* One iteration of the face loop.
Face ==
    /\ pc = "faces"
    /\ k <= Len(cam.faces)
    /\ IF face_decided(zbuf, cam, arg, k)
       THEN /\ pix' = draw_face(pix, zbuf, cam, arg, k).pix
            /\ zbuf' = draw_face(pix, zbuf, cam, arg, k).zbuf
            /\ k' = k + 1
            /\ pc' = pc
       ELSE /\ pc' = "unevaluated"
            /\ pix' = <<>>
            /\ zbuf' = <<>>
            /\ UNCHANGED k
    /\ UNCHANGED <<data, origin, arg, ascii, binary, tris, cam, lined, err,
                   made, saved, line,
                   call, ret, prev>>

\* The face loop has ended.
FacesDone ==
    /\ pc = "faces"
    /\ k > Len(cam.faces)
    /\ pc' = "makedirs"
    /\ UNCHANGED <<data, origin, arg, ascii, binary, tris, cam, pix, zbuf, k,
                   lined, err, made, saved, line,
                   call, ret, prev>>

\* os.makedirs(os.path.dirname(out_png) or ".", exist_ok=True)
MakeDirs ==
    /\ pc = "makedirs"
    /\ made' = TRUE
    /\ pc' = "save"
    /\ UNCHANGED <<data, origin, arg, ascii, binary, tris, cam, pix, zbuf, k,
                   lined, err, saved, line,
                   call, ret, prev>>

\* img.save(out_png)
Save ==
    /\ pc = "save"
    /\ saved' = TRUE
    /\ pc' = "done"
    /\ UNCHANGED <<data, origin, arg, ascii, binary, tris, cam, pix, zbuf, k,
                   lined, err, made, line,
                   call, ret, prev>>

Next ==
    \/ Detect
    \/ TryAscii
    \/ ParseBinary
    \/ Setup
    \/ DrawUnevaluated
    \/ NewImage
    \/ GroundLine
    \/ GroundDone
    \/ AxisLine
    \/ AxesDone
    \/ Face
    \/ FacesDone
    \/ MakeDirs
    \/ Save

Spec == Init /\ [][Next]_vars

(***************************************************************************)
(* render run twice on the same file with the same arguments: at any point *)
(* of the first run its state is kept in prev and render starts again.     *)
(***************************************************************************)
TwiceArgs ==
    { Args(FALSE, 2, 0, FALSE, FALSE, FALSE),
      Args(TRUE, 1, 50, TRUE, TRUE, TRUE) }

InitTwice ==
    /\ \/ \E i \in PaddedInputs \cup LongInputs :
              data = i.data /\ origin = i.origin /\ arg = DefaultArgs
       \/ \E i \in AsciiInputs :
              data = i.data /\ origin = i.origin /\ arg = DefaultArgs
       \/ \E i \in SceneInputs :
              data = i.data /\ origin = i.origin /\ arg \in TwiceArgs
    /\ pc = "read_stl"
    /\ ascii = NotCalled
    /\ binary = NotCalled
    /\ tris = <<>>
    /\ cam = NoCam
    /\ pix = <<>>
    /\ zbuf = <<>>
    /\ k = 0
    /\ lined = {}
    /\ err = ""
    /\ made = FALSE
    /\ saved = FALSE
    /\ line = <<>>
    /\ call = NoCall
    /\ ret = NoCall
    /\ prev = NoRun

\* What a run has come to: where it is and everything it has computed,
\* drawn and written.
RunState ==
    [pc |-> pc, k |-> k, ascii |-> ascii, binary |-> binary, tris |-> tris,
     cam |-> cam, pix |-> pix, zbuf |-> zbuf, lined |-> lined, err |-> err,
     made |-> made, saved |-> saved, line |-> line]

\* render is called again on the same file with the same arguments.
RunAgain ==
    /\ prev = NoRun
    /\ pc # "read_stl"
    /\ prev' = RunState
    /\ pc' = "read_stl"
    /\ ascii' = NotCalled
    /\ binary' = NotCalled
    /\ tris' = <<>>
    /\ cam' = NoCam
    /\ pix' = <<>>
    /\ zbuf' = <<>>
    /\ k' = 0
    /\ lined' = {}
    /\ err' = ""
    /\ made' = FALSE
    /\ saved' = FALSE
    /\ line' = <<>>
    /\ UNCHANGED <<data, origin, arg, call, ret>>

NextTwice ==
    \/ Next
    \/ RunAgain

SpecTwice == InitTwice /\ [][NextTwice]_vars

(***************************************************************************)
(* The two parsers called on their own, on every file of the model.        *)
(***************************************************************************)
InitParse ==
    /\ \E i \in LoaderInputs \cup SceneInputs :
           data = i.data /\ origin = i.origin
    /\ arg = DefaultArgs
    /\ pc = "parse"
    /\ ascii = NotCalled
    /\ binary = NotCalled
    /\ tris = <<>>
    /\ cam = NoCam
    /\ pix = <<>>
    /\ zbuf = <<>>
    /\ k = 0
    /\ lined = {}
    /\ err = ""
    /\ made = FALSE
    /\ saved = FALSE
    /\ line = <<>>
    /\ call = NoCall
    /\ ret = NoCall
    /\ prev = NoRun

\* read_stl_ascii(data.decode("utf-8", errors="ignore"))
CallReadStlAscii ==
    /\ pc = "parse"
    /\ ascii' = read_stl_ascii(decode(data))
    /\ pc' = "parsed"
    /\ UNCHANGED <<data, origin, arg, binary, tris, cam, pix, zbuf, k, lined,
                   err, made, saved, line,
                   call, ret, prev>>

\* read_stl_binary(data), with the end of the highest byte range it read.
CallReadStlBinary ==
    /\ pc = "parse"
    /\ binary' = read_stl_binary_io(data)
    /\ pc' = "parsed"
    /\ UNCHANGED <<data, origin, arg, ascii, tris, cam, pix, zbuf, k, lined,
                   err, made, saved, line,
                   call, ret, prev>>

NextParse ==
    \/ CallReadStlAscii
    \/ CallReadStlBinary

SpecParse == InitParse /\ [][NextParse]_vars

(***************************************************************************)
(* draw_line_z called on its own: any image and depth buffer, segments     *)
(* with their ends inside and outside the image, three opacities.          *)
(***************************************************************************)
LineColor == <<36, 48, 59>>

LineImages ==
    { [p \in Pixels(ImageSize) |-> <<11, 15, 21>>],
      [p \in Pixels(ImageSize) |->
          IF p[1] % 3 = 0 THEN <<200, 100, 0>> ELSE <<11, 15, 21>>] }

LineBuffers ==
    { [p \in Pixels(ImageSize) |-> Inf],
      [p \in Pixels(ImageSize) |-> <<-3, 1>>],
      [p \in Pixels(ImageSize) |->
          IF p[1] < 3 THEN <<-3, 1>> ELSE <<-7, 2>>],
      [p \in Pixels(ImageSize) |-> IF p[2] < 2 THEN Inf ELSE <<-2, 1>>] }

LineEnds ==
    { <<x, y, z>> : x \in {-1, 1, 4}, y \in {0, 3, ImageSize + 1},
                    z \in {<<-2, 1>>, <<-4, 1>>} }

LineAlphas == {0, 55, 100}

InitLine ==
    /\ data = <<>>
    /\ origin = Origin("none", <<>>, "")
    /\ arg = DefaultArgs
    /\ pc = "line"
    /\ ascii = NotCalled
    /\ binary = NotCalled
    /\ tris = <<>>
    /\ cam = NoCam
    /\ pix \in LineImages
    /\ zbuf \in LineBuffers
    /\ k = 0
    /\ lined = {}
    /\ err = ""
    /\ made = FALSE
    /\ saved = FALSE
    /\ \E p0 \in LineEnds, p1 \in LineEnds, a \in LineAlphas :
           line = <<p0, p1, LineColor, a>>
    /\ call = NoCall
    /\ ret = NoCall
    /\ prev = NoRun

\* draw_line_z(img, zbuf, p0, p1, color, alpha).  The depth buffer is what
\* the call leaves; the image is left out (<<>>) when a rounding, a depth
\* test or a blend of the call falls on a tie of float arithmetic.
DrawLineZ ==
    /\ pc = "line"
    /\ zbuf' = draw_line_z(pix, zbuf, line[1], line[2], line[3], line[4],
                           arg.size).zbuf
    /\ pix' = IF line_decided(pix, zbuf, line[1], line[2], line[3], line[4],
                              arg.size)
              THEN draw_line_z(pix, zbuf, line[1], line[2], line[3], line[4],
                               arg.size).pix
              ELSE <<>>
    /\ pc' = "line_done"
    /\ UNCHANGED <<data, origin, arg, ascii, binary, tris, cam, k, lined, err,
                   made, saved, line,
                   call, ret, prev>>

NextLine == DrawLineZ

SpecLine == InitLine /\ [][NextLine]_vars

(***************************************************************************)
(* build_vertex_normals called on its own, one triangle of its loop per    *)
(* step: lists of up to MaxTris triangles, in units, with shared corners,  *)
(* corners one unit apart, a repeated corner and a triangle of one point.  *)
(***************************************************************************)
MaxTris == 3

P_o == <<0, 0, 0>>

P_x == <<Unit, 0, 0>>

P_x_near == <<Unit + 1, 0, 0>>

P_y == <<0, Unit, 0>>

P_z == <<0, 0, Unit>>

TrianglePool ==
    { <<P_o, P_x, P_y>>, <<P_x, P_y, P_z>>, <<P_o, P_x_near, P_y>>,
      <<P_x, P_x, P_y>>, <<P_o, P_o, P_o>>, <<P_y, P_x, P_o>> }

TriangleLists ==
    UNION { [1..n -> TrianglePool] : n \in 1..MaxTris }

InitNormals ==
    /\ data = <<>>
    /\ origin = Origin("none", <<>>, "")
    /\ arg = DefaultArgs
    /\ pc = "vn_loop"
    /\ ascii = NotCalled
    /\ binary = NotCalled
    /\ tris = <<>>
    /\ cam = NoCam
    /\ pix = <<>>
    /\ zbuf = <<>>
    /\ k = 0
    /\ lined = {}
    /\ err = ""
    /\ made = FALSE
    /\ saved = FALSE
    /\ line = <<>>
    /\ call \in TriangleLists
    /\ ret = no_vertices
    /\ prev = NoRun

\* for t in tris: one turn.
AddTriangle ==
    /\ pc = "vn_loop"
    /\ k < Len(call)
    /\ ret' = add_triangle(ret, call[k + 1])
    /\ k' = k + 1
    /\ UNCHANGED <<data, origin, arg, pc, ascii, binary, tris, cam, pix, zbuf,
                   lined, err, made, saved, line, call, prev>>

\* norms = [v_norm(n) for n in normals_acc]; return verts, faces, norms
ReturnNormals ==
    /\ pc = "vn_loop"
    /\ k = Len(call)
    /\ ret' = normalized(ret)
    /\ pc' = "vn_returned"
    /\ UNCHANGED <<data, origin, arg, ascii, binary, tris, cam, pix, zbuf, k,
                   lined, err, made, saved, line, call, prev>>

NextNormals ==
    \/ AddTriangle
    \/ ReturnNormals

SpecNormals == InitNormals /\ [][NextNormals]_vars

(***************************************************************************)
(* project_persp called on its own, on camera-space points in units of     *)
(* 1e-7 with a z on both sides of -1e-6 (-10 units) and of 0.              *)
(***************************************************************************)
FineUnit == 10 * 1000000

ProjectedZ == {-300, -11, -10, -9, -1, 0, 7, 250}

ProjectedXY == {-20, 0, 3, 15}

FocalLengths == {1, 2, 3}

InitProject ==
    /\ data = <<>>
    /\ origin = Origin("none", <<>>, "")
    /\ arg = DefaultArgs
    /\ pc = "project"
    /\ ascii = NotCalled
    /\ binary = NotCalled
    /\ tris = <<>>
    /\ cam = NoCam
    /\ pix = <<>>
    /\ zbuf = <<>>
    /\ k = 0
    /\ lined = {}
    /\ err = ""
    /\ made = FALSE
    /\ saved = FALSE
    /\ line = <<>>
    /\ \E x \in ProjectedXY, y \in ProjectedXY, z \in ProjectedZ,
          f \in FocalLengths : call = [v |-> <<x, y, z>>, f |-> f]
    /\ ret = NoCall
    /\ prev = NoRun

\* project_persp(v, f)
CallProjectPersp ==
    /\ pc = "project"
    /\ ret' = project_persp_at(call.v, call.f, FineUnit)
    /\ pc' = "projected"
    /\ UNCHANGED <<data, origin, arg, ascii, binary, tris, cam, pix, zbuf, k,
                   lined, err, made, saved, line, call, prev>>

NextProject == CallProjectPersp

SpecProject == InitProject /\ [][NextProject]_vars

(***************************************************************************)
(* auto_upright_rotation called on its own, with the centre and the radius *)
(* render passes, on lists of up to MaxTris triangles in units: floors and *)
(* a roof of equal area, a wall, a slanted face, a face within the         *)
(* quantization step of a floor's direction, and a triangle of area 0.     *)
(***************************************************************************)
U3(x, y, z) == <<x * Unit, y * Unit, z * Unit>>

Floor == <<U3(0, 0, 0), U3(4, 0, 0), U3(0, 4, 0)>>

Roof == <<U3(0, 0, 2), U3(4, 0, 2), U3(0, 4, 2)>>

Wall == <<U3(0, 0, 0), U3(0, 0, 2), U3(0, 2, 0)>>

Slant == <<U3(0, 0, 0), U3(1, 0, 0), U3(0, 4, -3)>>

NearlyUp == <<<<0, 0, 0>>, <<2, 0, 0>>, <<0, 6560, -162>>>>

UprightPool ==
    { Floor, Rev(Floor), Roof, Wall, Slant, NearlyUp,
      <<U3(1, 1, 1), U3(1, 1, 1), U3(1, 1, 1)>> }

UprightLists ==
    UNION { [1..n -> UprightPool] : n \in 1..MaxTris }

\* The rotation of a call the model does not decide.
Undecided == [upward |-> <<0, 0, 0>>]

InitUpright ==
    /\ data = <<>>
    /\ origin = Origin("none", <<>>, "")
    /\ arg = DefaultArgs
    /\ pc = "upright"
    /\ ascii = NotCalled
    /\ binary = NotCalled
    /\ tris = <<>>
    /\ cam = NoCam
    /\ pix = <<>>
    /\ zbuf = <<>>
    /\ k = 0
    /\ lined = {}
    /\ err = ""
    /\ made = FALSE
    /\ saved = FALSE
    /\ line = <<>>
    /\ \E m \in UprightLists :
           call = [tris   |-> m,
                   center |-> mesh_center(bounds(m)[1], bounds(m)[2]),
                   radius |-> mesh_radius(bounds(m)[1], bounds(m)[2])]
    /\ ret = NoCall
    /\ prev = NoRun

\* upright_R = auto_upright_rotation(tris, center=center, radius=radius)
CallAutoUpright ==
    /\ pc = "upright"
    /\ ret' = IF upright_decided(call.tris, call.center, call.radius)
              THEN auto_upright_rotation(call.tris, call.center, call.radius)
              ELSE Undecided
    /\ pc' = "uprighted"
    /\ UNCHANGED <<data, origin, arg, ascii, binary, tris, cam, pix, zbuf, k,
                   lined, err, made, saved, line, call, prev>>

NextUpright == CallAutoUpright

SpecUpright == InitUpright /\ [][NextUpright]_vars

(***************************************************************************)
(* The shading of one pixel on its own: base colours with channels of 0,   *)
(* below 5 and up to 255, normals towards the light, across it and away    *)
(* from it, and the zero normal of a triangle of area 0.                   *)
(***************************************************************************)
BaseColours ==
    { <<76, 201, 240>>, <<4, 0, 0>>, <<5, 0, 0>>, <<1, 1, 1>>, <<0, 0, 0>>,
      <<255, 255, 255>>, <<0, 3, 9>> }

ShadedNormals ==
    { <<0, 0, 1>>, <<0, 0, -1>>, <<0, 1, 2>>, <<1, 0, 0>>, <<0, 0, 0>>,
      <<-4, -3, 10>>, <<0, 3, 1>> }

LightDirs == { <<-4, -3, 10>>, <<0, 0, 1>>, <<1, 0, 0>> }

InitShade ==
    /\ data = <<>>
    /\ origin = Origin("none", <<>>, "")
    /\ arg = DefaultArgs
    /\ pc = "shade"
    /\ ascii = NotCalled
    /\ binary = NotCalled
    /\ tris = <<>>
    /\ cam = NoCam
    /\ pix = <<>>
    /\ zbuf = <<>>
    /\ k = 0
    /\ lined = {}
    /\ err = ""
    /\ made = FALSE
    /\ saved = FALSE
    /\ line = <<>>
    /\ \E c \in BaseColours, n \in ShadedNormals, l \in LightDirs :
           call = [color_rgb |-> c, n |-> n, light |-> l]
    /\ ret = NoCall
    /\ prev = NoRun

\* ndotl, shade and pix[px, py] = (r, g, bcol) of the pixel loop; nothing
\* (<<>>) when a truncation is not decided.
ShadePixel ==
    /\ pc = "shade"
    /\ ret' = IF \A ch \in 1..3 :
                     shade_decided(call.color_rgb[ch], call.n, call.light)
              THEN shade_rgb(call.color_rgb, call.n, call.light)
              ELSE <<>>
    /\ pc' = "shaded"
    /\ UNCHANGED <<data, origin, arg, ascii, binary, tris, cam, pix, zbuf, k,
                   lined, err, made, saved, line, call, prev>>

NextShade == ShadePixel

SpecShade == InitShade /\ [][NextShade]_vars

(***************************************************************************)
(* The three drawing routines called on their own, for the indices they    *)
(* use: images of 1, 2 and ImageSize pixels a side, grids of any step,     *)
(* segments with ends far outside the image, and faces with corners in     *)
(* view, far off-screen, behind the camera (clamped by project_persp) and  *)
(* on one line.                                                            *)
(***************************************************************************)
IndexSizes == {1, 2, ImageSize}

GridSteps == {-1, 0, 1, 2, 3, 4, 80}

IndexEnds ==
    { <<x, y, <<-2, 1>>>> : x \in {-7, 0, 2, ImageSize - 1, 40},
                            y \in {-3, 1, ImageSize + 3} }

\* Camera-space corners in units: at depth 1 in view, on the edge of the
\* reject and far outside it, and at or behind the camera.
FacePoints ==
    { <<-Unit, -Unit, -Unit>>, <<Unit, -Unit, -Unit>>, <<0, Unit, -Unit>>,
      <<0, 0, -Unit>>, <<Unit, Unit, -Unit>>,
      <<-2 * Unit, 2 * Unit, -Unit>>, <<10 * Unit, 0, -Unit>>,
      <<1, 1, 0>>, <<-1, 0, 5>>, <<0, -1, 0>> }

InitIndex ==
    /\ data = <<>>
    /\ origin = Origin("none", <<>>, "")
    /\ arg = DefaultArgs
    /\ pc = "index"
    /\ ascii = NotCalled
    /\ binary = NotCalled
    /\ tris = <<>>
    /\ cam = NoCam
    /\ pix = <<>>
    /\ zbuf = <<>>
    /\ k = 0
    /\ lined = {}
    /\ err = ""
    /\ made = FALSE
    /\ saved = FALSE
    /\ line = <<>>
    /\ \/ \E size \in IndexSizes, step \in GridSteps, alpha \in LineAlphas :
              call = [fn |-> "draw_grid", size |-> size, step |-> step,
                      alpha |-> alpha]
       \/ \E size \in IndexSizes, p0 \in IndexEnds, p1 \in IndexEnds,
                alpha \in LineAlphas :
              call = [fn |-> "draw_line_z", size |-> size, p0 |-> p0,
                      p1 |-> p1, alpha |-> alpha]
       \/ \E size \in IndexSizes, a \in FacePoints, b \in FacePoints,
                c \in FacePoints, f \in FocalLengths, ts \in BOOLEAN :
              call = [fn |-> "face", size |-> size, a |-> a, b |-> b,
                      c |-> c, f |-> f, two_sided |-> ts]
    /\ ret = NoCall
    /\ prev = NoRun

\* draw_grid(img, bg_rgb, grid_rgb, step, alpha)
CallDrawGrid ==
    /\ pc = "index"
    /\ call.fn = "draw_grid"
    /\ ret' = [touched  |-> grid_indices(call.size, call.step, call.alpha),
               divisors |-> {}]
    /\ pc' = "indexed"
    /\ UNCHANGED <<data, origin, arg, ascii, binary, tris, cam, pix, zbuf, k,
                   lined, err, made, saved, line, call, prev>>

\* draw_line_z(img, zbuf, p0, p1, color, alpha)
CallDrawLineZ ==
    /\ pc = "index"
    /\ call.fn = "draw_line_z"
    /\ ret' = [touched  |-> line_indices(call.p0, call.p1, call.alpha,
                                         call.size),
               divisors |-> line_divisors(call.p0, call.p1, call.alpha)]
    /\ pc' = "indexed"
    /\ UNCHANGED <<data, origin, arg, ascii, binary, tris, cam, pix, zbuf, k,
                   lined, err, made, saved, line, call, prev>>

\* One iteration of the face loop, up to the depth test of its pixels.
\* Where a weight test falls on a tie, touched is every pixel it may pass.
FaceLoopBody ==
    /\ pc = "index"
    /\ call.fn = "face"
    /\ ret' = [touched  |-> IF weights_decided(call.a, call.b, call.c,
                                               call.f, call.size,
                                               call.two_sided)
                            THEN face_indices(
                                     face_setup(call.a, call.b, call.c,
                                                call.f, call.size,
                                                call.two_sided))
                            ELSE face_indices_at_ties(
                                     face_setup(call.a, call.b, call.c,
                                                call.f, call.size,
                                                call.two_sided)),
               decided  |-> weights_decided(call.a, call.b, call.c, call.f,
                                            call.size, call.two_sided),
               divisors |-> face_divisors(
                                face_setup(call.a, call.b, call.c, call.f,
                                           call.size, call.two_sided)),
               fs       |-> face_setup(call.a, call.b, call.c, call.f,
                                       call.size, call.two_sided)]
    /\ pc' = "indexed"
    /\ UNCHANGED <<data, origin, arg, ascii, binary, tris, cam, pix, zbuf, k,
                   lined, err, made, saved, line, call, prev>>

NextIndex == CallDrawGrid \/ CallDrawLineZ \/ FaceLoopBody

SpecIndex == InitIndex /\ [][NextIndex]_vars

(***************************************************************************)
(* Properties of the face loop (specification Spec).                       *)
(***************************************************************************)
\* render has ended with an image the model has evaluated.
Rendered == pc = "done" /\ pix # <<>>

\* Face j reaches its depth test at pixel p.
CoversAt(j, p) == covers(face_of(cam, arg, j), p)

DepthAt(j, p) == face_depth(face_of(cam, arg, j), p)

\* C1: where two rasterized triangles cover a pixel at different depths,
\* the pixel ends with the shaded colour of the nearer one (the camera is
\* at the origin and looks down -z, so the nearer one has the larger z),
\* whichever comes first in the face list.
NearerTriangleWins ==
    Rendered =>
        \A p \in Pixels(arg.size) : \A i, j \in 1..Len(cam.faces) :
            (/\ i # j
             /\ CoversAt(i, p)
             /\ CoversAt(j, p)
             /\ DepthLess(DepthAt(i, p), DepthAt(j, p)))
                => pix[p] = face_colour(cam, arg, j)

\* The face normal cross(b - a, c - a) of the camera-space triangle points
\* to the side of the camera, which is at the origin.
FacesCamera(a, b, c) == v_dot(v_cross(v_sub(b, a), v_sub(c, a)), a) < 0

\* Some pixel of the depth buffer was written by the face loop.
Rasterized == \E p \in Pixels(arg.size) : zbuf[p] # Inf

\* C2: a single triangle whose normal faces the camera is rasterized with
\* two_sided off, the same triangle in reversed vertex order is culled, and
\* with two_sided on both orders are rasterized.
CameraFacingIsDrawn ==
    (Rendered /\ Len(cam.faces) = 1) =>
        LET a == cam.vcam[cam.faces[1][1]]
            b == cam.vcam[cam.faces[1][2]]
            c == cam.vcam[cam.faces[1][3]]
        IN  /\ arg.two_sided => Rasterized
            /\ (~arg.two_sided /\ FacesCamera(a, b, c)) => Rasterized
            /\ (~arg.two_sided /\ FacesCamera(a, c, b)) => ~Rasterized

\* C4: after render, a pixel a ground-grid line was blended into and that a
\* rasterized mesh triangle covers shows the shaded colour of a triangle
\* covering it, not the line's blend.
GroundGridOccluded ==
    Rendered =>
        \A p \in lined :
            (\E j \in 1..Len(cam.faces) : CoversAt(j, p))
                => \E j \in 1..Len(cam.faces) :
                       CoversAt(j, p) /\ pix[p] = face_colour(cam, arg, j)

\* C4's case: render has ended and a mesh triangle covers a pixel of a
\* ground-grid line.
GroundGridOccludedCase ==
    /\ Rendered
    /\ arg.ground_grid
    /\ \E p \in lined : \E j \in 1..Len(cam.faces) : CoversAt(j, p)

(***************************************************************************)
(* Properties of the loader inside render (specification Spec).            *)
(***************************************************************************)
\* read_stl has returned or raised.
Loaded == pc \notin {"read_stl", "ascii", "binary"}

\* render ended by an exception of read_stl.
LoaderRaised == pc = "raised" /\ err # "float conversion"

\* The ASCII parse of the file succeeds where read_stl attempts it.
ParsedAsAscii == looks_ascii(data) /\ read_stl_ascii(decode(data)).ok

\* C5: an input of fewer than 84 bytes that is not successfully parsed as
\* ASCII makes read_stl raise, and render ends without the output directory
\* and without an image file.
ShortInputWritesNothing ==
    (Len(data) < 84 /\ ~ParsedAsAscii) =>
        /\ ~made
        /\ ~saved
        /\ pc \in {"read_stl", "ascii", "binary", "raised"}
        /\ pc = "raised" => err = "STL file too small"

\* C5's case: a short input has made read_stl_binary raise.
ShortInputRaised ==
    /\ Len(data) < 84
    /\ ~ParsedAsAscii
    /\ pc = "raised"
    /\ binary.err = "STL file too small"

\* C6 as stated: no image is written for a truncated binary file or for an
\* ASCII file with a malformed vertex line.
FaultyInputWritesNothing == origin.fault # "" => ~saved

\* The number of complete records a file of at least 84 bytes holds within
\* its declared count.
CompleteRecords(d) ==
    LET declared_lo == d[81] + 256 * d[82]
        declared_hi == d[83] + 256 * d[84]
        held        == (Len(d) - 84) \div 50
    IN  IF declared_hi > 0 \/ declared_lo > held THEN held ELSE declared_lo

\* The file is neither parsed as ASCII nor holds a record read_stl_binary
\* can return.
Unloadable(d) ==
    ~(looks_ascii(d) /\ read_stl_ascii(decode(d)).ok)
        /\ (Len(d) < 84 \/ CompleteRecords(d) = 0)

\* C6, amended: an error of render leaves no output directory and no image
\* file, and read_stl raises exactly for an input that is not parsed as
\* ASCII and, read as binary, is shorter than 84 bytes or holds no complete
\* record within its declared count.
UnloadableInputWritesNothing ==
    /\ err # "" => (~made /\ ~saved)
    /\ Loaded => (LoaderRaised <=> Unloadable(data))

\* C6's case: a faulty input has made read_stl raise.
FaultyInputRaised ==
    /\ origin.fault # ""
    /\ LoaderRaised
    /\ ~made
    /\ ~saved

\* C9: the ASCII parse is attempted exactly when the bytes without their
\* leading whitespace begin with "solid" and "facet" is in the first 4096
\* bytes; when it is not attempted or fails, read_stl ends as
\* read_stl_binary does on the same bytes.
AsciiAttemptedIffLooksAscii ==
    /\ pc # "read_stl" =>
           ((pc = "ascii" \/ ascii # NotCalled)
                <=> (/\ StartsWith(lstrip(data), B_solid)
                     /\ Contains(Prefix(data, 4096), B_facet)))
    /\ (Loaded /\ ~ascii.ok) =>
           /\ LoaderRaised <=> ~read_stl_binary(data).ok
           /\ LoaderRaised => err = read_stl_binary(data).err
           /\ ~LoaderRaised => tris = read_stl_binary(data).tris

\* C10: read_stl returns the triangle list a valid binary or ASCII file
\* encodes: the same triangles in the same order with the same vertex
\* order.
ValidEncodingsLoadTheirMesh ==
    (Loaded /\ origin.enc \in {"binary", "ascii"}) =>
        (~LoaderRaised /\ tris = origin.mesh)

(***************************************************************************)
(* Properties of the parsers called on their own (specification            *)
(* SpecParse).                                                             *)
(***************************************************************************)
\* C7: on at least 84 bytes read_stl_binary returns min(n, floor((len - 84)
\* / 50)) triangles, n the little-endian uint32 at byte 80, record i read
\* at 84 + 50 i; it reads no byte beyond the end; it raises exactly when
\* that number is zero.
BinaryCountIsClamped ==
    (pc = "parsed" /\ binary # NotCalled /\ Len(data) >= 84) =>
        /\ binary.ok <=> CompleteRecords(data) > 0
        /\ binary.ok => Len(binary.tris) = CompleteRecords(data)
        /\ \A i \in 1..Len(binary.tris) :
               binary.tris[i] = RecordAt(data, 84 + 50 * (i - 1))
        /\ binary.last <= Len(data)

\* C7's case: the declared count exceeds the complete records held and the
\* records held are returned.
BinaryCountClampedCase ==
    /\ pc = "parsed"
    /\ binary # NotCalled
    /\ Len(data) >= 84
    /\ (data[83] + 256 * data[84] > 0
            \/ data[81] + 256 * data[82] > (Len(data) - 84) \div 50)
    /\ binary.ok
    /\ Len(binary.tris) >= 1

\* The lines of the text that begin with "vertex" (indentation aside).
VertexLines(text) ==
    SelectSeq(splitlines(text),
              LAMBDA l : StartsWith(strip(l), <<118, 101, 114, 116, 101, 120>>))

\* C8: with k lines beginning with "vertex", read_stl_ascii returns
\* floor(k / 3) triangles and raises exactly when k < 3.
VertexLinesGroupInThrees ==
    (pc = "parsed" /\ ascii # NotCalled) =>
        /\ ascii.ok <=> Len(VertexLines(decode(data))) >= 3
        /\ ascii.ok =>
               Len(ascii.tris) = Len(VertexLines(decode(data))) \div 3

(***************************************************************************)
(* Properties of draw_line_z called on its own (specification SpecLine).   *)
(***************************************************************************)
\* Some sample of the line is the in-image pixel p, with a depth below the
\* depth buffer's entry zb[p].
SampleBelow(ln, zb, p, size) ==
    \E i \in 0..line_steps(ln[1], ln[2]) :
        /\ line_steps(ln[1], ln[2]) > 0
        /\ <<line_sample(ln[1], ln[2], i).xi,
             line_sample(ln[1], ln[2], i).yi>> = p
        /\ DepthLess(line_sample(ln[1], ln[2], i).z, zb[p])

\* C3: draw_line_z leaves every entry of the depth buffer as it was, and it
\* changes the colour of in-image pixels only, and only where the depth
\* entry is greater than the line's interpolated depth.
LinesNeverWriteDepth ==
    [][(pc = "line" /\ pc' = "line_done") =>
          /\ zbuf' = zbuf
          /\ pix' # <<>> =>
                 /\ DOMAIN pix' = Pixels(arg.size)
                 /\ \A p \in Pixels(arg.size) :
                        pix'[p] # pix[p]
                            => SampleBelow(line, zbuf, p, arg.size)]_vars

\* C3's case: a call has blended into a pixel and has left another sample
\* to the depth test, over a depth buffer with finite entries.
LineBlendedAndRejected ==
    /\ pc = "line_done"
    /\ pix # <<>>
    /\ line[4] > 0
    /\ line_steps(line[1], line[2]) > 0
    /\ \E p \in Pixels(arg.size) :
           /\ SampleBelow(line, zbuf, p, arg.size)
           /\ zbuf[p] # Inf
           /\ pix[p] \notin {<<11, 15, 21>>, <<200, 100, 0>>}
    /\ \E i \in 0..line_steps(line[1], line[2]) :
           LET sm == line_sample(line[1], line[2], i)
           IN  /\ <<sm.xi, sm.yi>> \in Pixels(arg.size)
               /\ ~DepthLess(sm.z, zbuf[<<sm.xi, sm.yi>>])
               /\ pix[<<sm.xi, sm.yi>>] \in {<<11, 15, 21>>, <<200, 100, 0>>}


(***************************************************************************)
(* Properties of build_vertex_normals (specification SpecNormals).         *)
(***************************************************************************)
\* The per-vertex list next to verts: the accumulator during the loop, the
\* normals at return.
NormalList == IF pc = "vn_returned" THEN ret.norms ELSE ret.acc

\* C11: after every triangle of build_vertex_normals' loop, and at return,
\* verts and the normal list have the same length, there is one face per
\* triangle processed, in input order, every face index is an index of
\* verts, and the vertex at the i-th index of face j is the i-th corner of
\* triangle j; at return every input triangle has its face.
FacesIndexTheirCorners ==
    pc \in {"vn_loop", "vn_returned"} =>
        /\ Len(ret.verts) = Len(NormalList)
        /\ Len(ret.faces) = k
        /\ pc = "vn_returned" => k = Len(call)
        /\ \A j \in 1..k : \A i \in 1..3 :
               /\ ret.faces[j][i] \in 1..Len(ret.verts)
               /\ ret.verts[ret.faces[j][i]] = call[j][i]

\* build_vertex_normals has returned for three triangles that share
\* corners.
SharedCornersIndexed ==
    /\ pc = "vn_returned"
    /\ Len(call) = MaxTris
    /\ Len(ret.verts) < 3 * MaxTris
    /\ Len(ret.verts) > 3

\* The corners of the first n triangles, in the order vid is called on
\* them.
Corners(trl, n) ==
    [c \in 1..(3 * n) |-> trl[((c - 1) \div 3) + 1][((c - 1) % 3) + 1]]

\* The index vid returned for the c-th corner.
CornerIndex(c) == ret.faces[((c - 1) \div 3) + 1][((c - 1) % 3) + 1]

\* The position of the first corner equal to v.
FirstAppearance(cs, v) == SetMin({c \in 1..Len(cs) : cs[c] = v})

\* C12: two corners get the same vertex index exactly when their
\* coordinate triples are equal, so verts holds no position twice, holds
\* every corner, and lists the positions in order of first appearance;
\* corners one unit apart are not merged.
EqualCornersShareAnIndex ==
    pc \in {"vn_loop", "vn_returned"} =>
        LET cs == Corners(call, k)
        IN  /\ \A c, e \in 1..Len(cs) :
                   (CornerIndex(c) = CornerIndex(e)) <=> (cs[c] = cs[e])
            /\ \A i, j \in 1..Len(ret.verts) :
                   i # j => ret.verts[i] # ret.verts[j]
            /\ \A i, j \in 1..Len(ret.verts) :
                   i < j => FirstAppearance(cs, ret.verts[i])
                                < FirstAppearance(cs, ret.verts[j])

\* build_vertex_normals has returned for triangles with an equal corner in
\* two of them and with two corners one unit apart.
NearCornersKeptApart ==
    /\ pc = "vn_returned"
    /\ \E i, j \in 1..Len(ret.verts) :
           ret.verts[i] = P_x /\ ret.verts[j] = P_x_near
    /\ \E c, e \in 1..(3 * k) :
           /\ (c - 1) \div 3 # (e - 1) \div 3
           /\ CornerIndex(c) = CornerIndex(e)

(***************************************************************************)
(* Properties of the camera set-up (specification Spec).                   *)
(***************************************************************************)
\* Every triangle of the loaded mesh has area 0 (as when all its vertices
\* coincide).
DegenerateMesh ==
    /\ tris # <<>>
    /\ EvaluableMesh(tris)
    /\ \A t \in 1..Len(tris) :
           tri_weighted_normal(MeshInUnits(tris)[t]) = <<0, 0, 0>>

AtMostNearLimit(z) == z[1] * 1000000 <= -FineUnit * z[2]

\* C14: project_persp returns, for every point, a depth z <= -1e-6: the
\* z of the point if that is <= -1e-6 and -1e-6 otherwise; the divisor -z
\* is then >= 1e-6, and the returned x and y are v.x * f / (-z) and
\* v.y * f / (-z) for the returned z.
ProjectedDepthIsClamped ==
    pc = "projected" =>
        /\ AtMostNearLimit(ret[3])
        /\ ret[3] = IF AtMostNearLimit(<<call.v[3], 1>>)
                    THEN <<call.v[3], 1>>
                    ELSE Frac(-FineUnit, 1000000)
        /\ ret[3][2] > 0 /\ ret[1][2] > 0 /\ ret[2][2] > 0
        /\ ret[1][1] * (-ret[3][1]) = call.v[1] * call.f * ret[1][2] * ret[3][2]
        /\ ret[2][1] * (-ret[3][1]) = call.v[2] * call.f * ret[2][2] * ret[3][2]

\* project_persp has returned for a point between -1e-6 and the camera
\* plane, off the axis.
NearPointProjected ==
    /\ pc = "projected"
    /\ call.v[3] < 0
    /\ ~AtMostNearLimit(<<call.v[3], 1>>)
    /\ call.v[1] # 0
    /\ ret[3] = Frac(-FineUnit, 1000000)

\* The rational x is within [-(1 - margin), 1 - margin], margin in
\* hundredths.
WithinMargin(x, margin) ==
    /\ x[1] * 100 <= (100 - margin) * x[2]
    /\ -x[1] * 100 <= (100 - margin) * x[2]

\* C15: with the camera at the distance render computes, every vertex of
\* the mesh projects to normalized coordinates x and y with
\* |x| <= 1 - margin and |y| <= 1 - margin.
MeshFitsView ==
    (cam # NoCam /\ arg.margin < 100) =>
        \A i \in 1..Len(cam.vcam) :
            /\ WithinMargin(project_persp(cam.vcam[i], arg.f)[1], arg.margin)
            /\ WithinMargin(project_persp(cam.vcam[i], arg.f)[2], arg.margin)

(***************************************************************************)
(* Properties of auto_upright_rotation (specification SpecUpright).        *)
(***************************************************************************)
\* The support area, doubled, of the i-th test direction of the call.
Score(i) ==
    support(call.tris, call.center, call.radius, test_dirs(call.tris)[i])

\* The triangles of positive area whose normal has the quantized
\* direction of d.
Along(d) ==
    {t \in 1..Len(call.tris) :
        /\ tri_area2(call.tris[t]) > 0
        /\ quantized(tri_dir(call.tris[t])) = quantized(d)}

LargestAlong(d) == SetMax({tri_area2(call.tris[t]) : t \in Along(d)})

\* The first of the largest triangles along d, in input order.
FirstLargestAlong(d) ==
    SetMin({t \in Along(d) : tri_area2(call.tris[t]) = LargestAlong(d)})

\* C16: auto_upright_rotation returns the rotation of the first test
\* direction, in evaluation order, whose support area is the largest of
\* all test directions (the identity when there is no test direction);
\* the test directions are the normals of the candidate triangles by
\* descending area (equal areas in input order, one normal per quantized
\* direction), each followed by its negation.
FirstBestDirectionWins ==
    (pc = "uprighted" /\ ret # Undecided) =>
        LET dirs == test_dirs(call.tris)
        IN  /\ dirs = <<>> => ret = identity
            /\ dirs # <<>> =>
                   \E i \in 1..Len(dirs) :
                       /\ ret = rotation_from_to(dirs[i])
                       /\ \A j \in 1..Len(dirs) : Score(j) <= Score(i)
                       /\ \A j \in 1..(i - 1) : Score(j) < Score(i)
            /\ Len(dirs) % 2 = 0
            /\ \A t \in 1..Len(call.tris) :
                   tri_area2(call.tris[t]) > 0 =>
                       \E i \in 1..Len(dirs) :
                           i % 2 = 1 /\ t \in Along(dirs[i])
            /\ \A i \in 1..Len(dirs) :
                   i % 2 = 1 =>
                       /\ dirs[i] = tri_dir(call.tris[FirstLargestAlong(dirs[i])])
                       /\ dirs[i + 1] = <<-dirs[i][1], -dirs[i][2], -dirs[i][3]>>
                       /\ \A j \in 1..(i - 1) :
                              j % 2 = 1 =>
                                  \/ LargestAlong(dirs[j]) > LargestAlong(dirs[i])
                                  \/ /\ LargestAlong(dirs[j]) = LargestAlong(dirs[i])
                                     /\ FirstLargestAlong(dirs[j])
                                            < FirstLargestAlong(dirs[i])

\* Two test directions of several have the largest support area, and the
\* rotation returned is the one of the earlier.
EarlierOfEqualScoresWon ==
    /\ pc = "uprighted"
    /\ ret # Undecided
    /\ Len(test_dirs(call.tris)) >= 4
    /\ \E i, j \in 1..Len(test_dirs(call.tris)) :
           /\ i < j
           /\ Score(i) = Score(j)
           /\ Score(i) > 0
           /\ \A h \in 1..Len(test_dirs(call.tris)) : Score(h) <= Score(i)
           /\ ret = rotation_from_to(test_dirs(call.tris)[i])

(***************************************************************************)
(* Properties of the shading (specification SpecShade).                    *)
(***************************************************************************)
\* A pixel has been shaded and the model holds its colour.
Shaded == pc = "shaded" /\ ret # <<>>

\* The light does not face the surface: dot(normal, light) <= 0.
Unlit == v_dot(call.n, call.light) <= 0

\* Every channel is base * shade truncated for a shade in [0.20, 1.0],
\* which is 0.20 without light: it lies in floor(base / 5)..base and is
\* floor(base / 5) without light.
ChannelsWithinShade ==
    \A ch \in 1..3 :
        /\ ret[ch] >= call.color_rgb[ch] \div 5
        /\ ret[ch] <= call.color_rgb[ch]
        /\ Unlit => ret[ch] = call.color_rgb[ch] \div 5

\* C17 as stated: every written channel is base * shade truncated, with
\* shade in [0.20, 1.0] and 0.20 without light, and no pixel is written
\* black when the base colour has a channel that is not 0.
NoFaceIsBlack ==
    Shaded =>
        /\ ChannelsWithinShade
        /\ (\E ch \in 1..3 : call.color_rgb[ch] # 0) => ret # <<0, 0, 0>>

\* C17 amended: every written channel is base * shade truncated, with
\* shade in [0.20, 1.0] and 0.20 without light, and no pixel is written
\* black when the base colour has a channel of 5 or more.
NoFaceIsBlackFromFive ==
    Shaded =>
        /\ ChannelsWithinShade
        /\ (\E ch \in 1..3 : call.color_rgb[ch] >= 5) => ret # <<0, 0, 0>>

\* A pixel without light has been written with a colour that is not
\* black, a channel of it being a fifth of the base colour's.
UnlitPixelKeepsAmbient ==
    /\ Shaded
    /\ Unlit
    /\ call.n # <<0, 0, 0>>
    /\ \E ch \in 1..3 :
           call.color_rgb[ch] >= 5 /\ ret[ch] = call.color_rgb[ch] \div 5

Covering(p) == {j \in 1..Len(cam.faces) : CoversAt(j, p)}

\* The faces of the smallest depth at p.
AtMinimum(p) ==
    {j \in Covering(p) :
        \A i \in Covering(p) : ~DepthLess(DepthAt(i, p), DepthAt(j, p))}

\* The face loop of render on the camera set-up c, from a blank image and
\* a depth buffer of +infinity: [pix, zbuf] after the first n faces.
OneMoreFace(b, c, a, n) == draw_face(b.pix, b.zbuf, c, a, n)

RECURSIVE FacesDrawn(_, _, _)
FacesDrawn(c, a, n) ==
    IF n = 0
    THEN [pix  |-> [p \in Pixels(a.size) |-> a.bg_rgb],
          zbuf |-> [p \in Pixels(a.size) |-> Inf]]
    ELSE OneMoreFace(FacesDrawn(c, a, n - 1), c, a, n)

\* The loaded triangles in the opposite order.
Reversed == [i \in 1..Len(tris) |-> tris[Len(tris) + 1 - i]]

\* The depth buffer and the covered pixels without a tie are those of the
\* face loop over the reversed triangle list.
SameAsReversed(b) ==
    /\ zbuf = b.zbuf
    /\ \A p \in Pixels(arg.size) :
           Cardinality(AtMinimum(p)) = 1 => pix[p] = b.pix[p]

\* After the face loop every depth-buffer entry is the smallest depth of
\* the faces covering the pixel, +infinity if there is none, and a covered
\* pixel has the colour of the first face of that depth in the list; the
\* reversed list gives the same.
LoopEndedAtMinimum ==
    /\ \A p \in Pixels(arg.size) :
           IF Covering(p) = {} THEN zbuf[p] = Inf
           ELSE /\ \E j \in AtMinimum(p) : zbuf[p] = DepthAt(j, p)
                /\ pix[p] = face_colour(cam, arg, SetMin(AtMinimum(p)))
    /\ SameAsReversed(FacesDrawn(render_setup(Reversed, arg), arg,
                                 Len(cam.faces)))

\* C19: no iteration of the face loop increases a depth-buffer entry, and
\* after the loop every entry is the minimum depth over the non-skipped
\* faces covering its pixel (+infinity if none), so that the depth buffer
\* does not depend on the order of the faces, nor does the image, but
\* where faces tie at the minimum and the earlier in the list is drawn.
DepthIsMinimum ==
    [][(pc = "faces" /\ pix # <<>> /\ pix' # <<>>) =>
          /\ \A p \in Pixels(arg.size) : ~DepthLess(zbuf[p], zbuf'[p])
          /\ pc' = "makedirs" => LoopEndedAtMinimum]_vars

\* A pixel is covered by two faces of equal depth and different colours,
\* and has the colour of the earlier one.
EarlierFaceKeptAtTie ==
    /\ Rendered
    /\ \E p \in Pixels(arg.size) : \E i, j \in Covering(p) :
           /\ i < j
           /\ DepthTie(DepthAt(i, p), DepthAt(j, p))
           /\ face_colour(cam, arg, i) # face_colour(cam, arg, j)
           /\ pix[p] = face_colour(cam, arg, i)

(***************************************************************************)
(* Properties of the order of render's drawing steps (specification Spec). *)
(***************************************************************************)
\* The place of a step of render in its text; "unevaluated" stands for the
\* drawing steps of a scene whose pixels the model does not evaluate and
\* ranks with the last of them.
StepRank(p) ==
    CASE p = "read_stl" -> 0
      [] p \in {"ascii", "binary"} -> 1
      [] p = "setup" -> 2
      [] p = "image" -> 3
      [] p = "ground" -> 4
      [] p = "axes" -> 5
      [] p \in {"faces", "unevaluated"} -> 6
      [] p = "makedirs" -> 7
      [] p = "save" -> 8
      [] p = "done" -> 9
      [] OTHER -> 10

\* No in-image sample of the segment ln = <<p0, p1, colour, alpha>> fails
\* the depth test against zb.
NoSampleRejected(ln, zb) ==
    \A i \in 0..line_steps(ln[1], ln[2]) :
        (/\ line_steps(ln[1], ln[2]) > 0
         /\ <<line_sample(ln[1], ln[2], i).xi,
              line_sample(ln[1], ln[2], i).yi>> \in Pixels(arg.size))
            => DepthLess(line_sample(ln[1], ln[2], i).z,
                         zb[<<line_sample(ln[1], ln[2], i).xi,
                              line_sample(ln[1], ln[2], i).yi>>])

\* C20: the steps of one render call come in the order of its text: the
\* image with the screen-space grid over the background, then the ground
\* grid's lines, then the axes, then the faces in mesh order, then the
\* one save after the last face; the depth buffer is +infinity everywhere
\* at every draw_line_z call of render, whose depth test rejects no
\* in-image pixel and which leaves the buffer as it is.
DrawingStepsInOrder ==
    [][/\ StepRank(pc') >= StepRank(pc)
       /\ (pc = "image" /\ pc' = "ground") =>
              /\ zbuf' = [p \in Pixels(arg.size) |-> Inf]
              /\ \A p \in Pixels(arg.size) :
                     pix'[p] = IF /\ arg.grid
                                  /\ \/ p[1] % arg.grid_step = 0
                                     \/ p[2] % arg.grid_step = 0
                               THEN blend_rgb(arg.bg_rgb, arg.grid_rgb,
                                              arg.grid_alpha)
                               ELSE arg.bg_rgb
       /\ (pc \in {"ground", "axes"} /\ pc' = pc) =>
              /\ zbuf = [p \in Pixels(arg.size) |-> Inf]
              /\ zbuf' = zbuf
              /\ NoSampleRejected(line', zbuf)
       /\ (pc = "faces" /\ pc' = pc) =>
              /\ k' = k + 1
              /\ pix' = draw_face(pix, zbuf, cam, arg, k).pix
       /\ saved' # saved =>
              /\ ~saved
              /\ pc = "save"
              /\ pc' = "done"
              /\ pix # <<>> => k = Len(cam.faces) + 1]_vars

\* The screen-space grid, the ground grid and the three axes are drawn,
\* the depth buffer is still +infinity everywhere, and the first face is
\* next.
LinesDrawnBeforeFaces ==
    /\ pc = "faces"
    /\ k = 1
    /\ pix # <<>>
    /\ arg.grid /\ arg.ground_grid /\ arg.axes
    /\ lined # {}
    /\ line # <<>>
    /\ Len(cam.faces) > 1
    /\ \A p \in Pixels(arg.size) : zbuf[p] = Inf

(***************************************************************************)
(* Properties of the cheap reject of render's face loop (specification     *)
(* Spec).                                                                  *)
(***************************************************************************)
\* Pixel p lies in the projected triangle of fs (its corners A, B, C in
\* pixels): the triangle has an area and no barycentric weight of p is
\* negative.
InProjectedTriangle(fs, p) ==
    /\ fs.denom # 0
    /\ bary(fs, p)[1] >= 0
    /\ bary(fs, p)[2] >= 0
    /\ bary(fs, p)[3] >= 0

\* The faces the loop has passed and skipped at its cheap reject.
RejectedFaces ==
    IF pc \in {"faces", "makedirs", "save", "done"} /\ pix # <<>>
    THEN {j \in 1..Len(cam.faces) :
             j < k /\ face_of(cam, arg, j).outcome = "rejected"}
    ELSE {}

\* C21: a face skipped by the cheap reject (all three projected x, or all
\* three projected y, outside [-2, 2]) covers no pixel of the image.
RejectedFacesCoverNothing ==
    \A j \in RejectedFaces :
        \A p \in Pixels(arg.size) :
            ~InProjectedTriangle(face_of(cam, arg, j), p)

(***************************************************************************)
(* Properties of the indices of the drawing routines (specification        *)
(* SpecIndex).                                                             *)
(***************************************************************************)
\* The face of the call has an empty clamped box or a denominator of 0.
NothingToFill ==
    /\ call.fn = "face"
    /\ \/ ret.fs.minx >= ret.fs.maxx
       \/ ret.fs.miny >= ret.fs.maxy
       \/ ret.fs.denom = 0

\* C22: every index a drawing routine uses on the image or the depth
\* buffer has 0 <= x <= size - 1 and 0 <= y <= size - 1, whatever the
\* size, the grid step, the ends of the segment and the corners of the
\* face (in view, far outside it or clamped at the near plane); nothing is
\* divided by 0; and a face whose clamped box has minx >= maxx or
\* miny >= maxy, or whose denominator is 0, uses no index and divides
\* nothing.
IndicesWithinImage ==
    pc = "indexed" =>
        /\ ret.touched \subseteq Pixels(call.size)
        /\ 0 \notin ret.divisors
        /\ NothingToFill => ret.touched = {} /\ ret.divisors = {}

\* A face with a corner clamped at the near plane and a pixel box cut at
\* both sides of the image has been filled.
ClampedFaceFilled ==
    /\ pc = "indexed"
    /\ call.fn = "face"
    /\ call.a[3] >= 0
    /\ ret.decided
    /\ ret.touched # {}
    /\ SetMin({ret.fs.A[1], ret.fs.B[1], ret.fs.C[1]}) < 0
    /\ SetMax({ret.fs.A[1], ret.fs.B[1], ret.fs.C[1]}) > call.size - 1

=============================================================================
